---- MODULE Spec2Model ----
(***************************************************************************)
(* A model of the series-renaming service: the text-generation client, the *)
(* retry orchestrator and the response cache (api.js), the extractors, the *)
(* classifier, the batch-format check and the flat rename driver (lib.js), *)
(* and the move driver (system.js).                                        *)
(*                                                                         *)
(* Strings the program takes apart (paths, names) are sequences of         *)
(* one-character strings; prompts and raw completions are atomic strings.  *)
(***************************************************************************)
EXTENDS Integers, Sequences, FiniteSets, TLC

VARIABLES
    requestCache,   \* api.js: the module-level RequestMap (key -> response)
    apiPc,          \* where the current requestWrapper call stands
    curReq,         \* the request of the call in progress
    tries,          \* requestRetryWrapper's loop counter
    response,       \* what requestRetryWrapper handed back to requestWrapper
    attempt,        \* history of the call in progress: its client invocations
    clientCalls,    \* client invocations (ollama.chat) since process start
    calls,          \* history: the completed requestWrapper calls, in order
    fs,             \* the file system: files (path -> file identity) and directories
    program,        \* which driver the process runs: "rename" or "move"
    drvPc,          \* "start", "walk", "done", or "raised" (the driver threw)
    stack,          \* the driver's call stack: one frame per directory being processed
    serviceMode,    \* how the text-generation service behaves in this behaviour
    run,            \* the number of the current process (a rerun is a new process)
    visited,        \* history: the directories entered, with their batch verdict
    log,            \* history: the loop iterations made, with their outcome
    libCall         \* history: the call of a lib.js function made on its own

apiVars ==
    <<requestCache, apiPc, curReq, tries, response, attempt, clientCalls, calls, libCall>>

apiCallVars == <<apiPc, curReq, tries, response, attempt, clientCalls, calls, libCall>>

drvVars == <<fs, program, drvPc, stack, serviceMode, run, visited, log>>

vars ==
    <<requestCache, apiPc, curReq, tries, response, attempt, clientCalls, calls,
      fs, program, drvPc, stack, serviceMode, run, visited, log, libCall>>

(***************************************************************************)
(* Bounds of the model and constants of the program.                       *)
(***************************************************************************)
\* the bound of requestRetryWrapper's loop: while (tries < 15)
MaxTries == 15

\* requestWrapper calls made in one process in the api specification
MaxCalls == 3

(***************************************************************************)
(* JSON values as JavaScript sees them.                                    *)
(***************************************************************************)
JUndef == [t |-> "undefined", n |-> 0, s |-> <<>>]
JNull == [t |-> "null", n |-> 0, s |-> <<>>]
JNaN == [t |-> "nan", n |-> 0, s |-> <<>>]
JBool(b) == [t |-> "boolean", n |-> IF b THEN 1 ELSE 0, s |-> <<>>]
JNum(i) == [t |-> "number", n |-> i, s |-> <<>>]
JStr(str) == [t |-> "string", n |-> 0, s |-> str]

\* A parsed completion: an object with the fields the callers read, or null.
\* k = "undefined" is the absent result of an exhausted retry loop.
EmptyObject ==
    [k |-> "object", test |-> JUndef, classification |-> JUndef, series |-> JUndef,
     season |-> JUndef, episode |-> JUndef, matches |-> JUndef]

NoAnswer == [EmptyObject EXCEPT !.k = "undefined"]
NullValue == [EmptyObject EXCEPT !.k = "null"]

(***************************************************************************)
(* Strings: the JavaScript and node:path operations the program applies to *)
(* paths and names (POSIX paths).                                          *)
(***************************************************************************)
Digits == <<"0", "1", "2", "3", "4", "5", "6", "7", "8", "9">>

IsDigit(ch) == \E d \in 1..10 : Digits[d] = ch

DigitValue(ch) == (CHOOSE d \in 1..10 : Digits[d] = ch) - 1

RECURSIVE NatToString(_)
NatToString(n) ==
    IF n < 10 THEN <<Digits[n + 1]>>
    ELSE Append(NatToString(n \div 10), Digits[(n % 10) + 1])

\* Number.prototype.toString of an integer or NaN
NumberToString(v) ==
    IF v.t = "nan" THEN <<"N", "a", "N">>
    ELSE IF v.n < 0 THEN <<"-">> \o NatToString(-v.n)
    ELSE NatToString(v.n)

\* what a template literal makes of a value
TemplateString(v) ==
    CASE v.t = "string" -> v.s
      [] v.t = "number" -> NumberToString(v)
      [] v.t = "nan" -> NumberToString(v)
      [] v.t = "boolean" -> IF v.n = 1 THEN <<"t", "r", "u", "e">>
                            ELSE <<"f", "a", "l", "s", "e">>
      [] v.t = "null" -> <<"n", "u", "l", "l">>
      [] OTHER -> <<"u", "n", "d", "e", "f", "i", "n", "e", "d">>

\* str.padStart(2, '0')
PadStart(str) ==
    IF Len(str) >= 2 THEN str
    ELSE IF Len(str) = 1 THEN <<"0">> \o str
    ELSE <<"0", "0">>

\* the digits at the head of str, as a number (acc so far)
RECURSIVE LeadingDigits(_, _, _)
LeadingDigits(str, i, acc) ==
    IF i <= Len(str) /\ IsDigit(str[i])
    THEN LeadingDigits(str, i + 1, 10 * acc + DigitValue(str[i]))
    ELSE acc

RECURSIVE SkipSpaces(_, _)
SkipSpaces(str, i) ==
    IF i <= Len(str) /\ str[i] = " " THEN SkipSpaces(str, i + 1) ELSE i

\* parseInt(value): the value as a string, leading blanks skipped, a sign, then
\* the leading decimal digits; NaN when there is none
ParseInt(v) ==
    LET str == TemplateString(v)
        b == SkipSpaces(str, 1)
        neg == b <= Len(str) /\ str[b] = "-"
        d == IF b <= Len(str) /\ str[b] \in {"-", "+"} THEN b + 1 ELSE b
    IN  IF d <= Len(str) /\ IsDigit(str[d])
        THEN JNum((IF neg THEN -1 ELSE 1) * LeadingDigits(str, d, 0))
        ELSE JNaN

\* !value is false
Truthy(v) ==
    CASE v.t = "string" -> v.s # <<>>
      [] v.t = "number" -> v.n # 0
      [] v.t = "boolean" -> v.n = 1
      [] OTHER -> FALSE

LastIndexOf(str, ch) ==
    IF \E i \in 1..Len(str) : str[i] = ch
    THEN CHOOSE i \in 1..Len(str) :
            str[i] = ch /\ \A j \in (i + 1)..Len(str) : str[j] # ch
    ELSE 0

RECURSIVE StripTrailingSlashes(_)
StripTrailingSlashes(p) ==
    IF Len(p) > 1 /\ p[Len(p)] = "/" THEN StripTrailingSlashes(SubSeq(p, 1, Len(p) - 1))
    ELSE p

EndsWith(str, suffix) ==
    /\ Len(suffix) <= Len(str)
    /\ SubSeq(str, Len(str) - Len(suffix) + 1, Len(str)) = suffix

StartsWith(str, prefix) ==
    /\ Len(prefix) <= Len(str)
    /\ SubSeq(str, 1, Len(prefix)) = prefix

\* path.basename(p)
Basename(p) ==
    LET q == StripTrailingSlashes(p)
    IN  IF q = <<"/">> THEN <<>> ELSE SubSeq(q, LastIndexOf(q, "/") + 1, Len(q))

\* path.dirname(p)
Dirname(p) ==
    LET ends == {i \in 2..Len(p) : p[i] = "/" /\ \E j \in (i + 1)..Len(p) : p[j] # "/"}
    IN  IF ends = {}
        THEN (IF Len(p) > 0 /\ p[1] = "/" THEN <<"/">> ELSE <<".">>)
        ELSE LET e == CHOOSE i \in ends : \A j \in ends : j <= i
             IN  IF p[1] = "/" /\ e = 2 THEN <<"/", "/">> ELSE SubSeq(p, 1, e - 1)

\* path.extname(p): from the last dot of the base name, unless that dot starts it
Extname(p) ==
    LET b == Basename(p)
        d == LastIndexOf(b, ".")
    IN  IF d <= 1 \/ b = <<".", ".">> THEN <<>> ELSE SubSeq(b, d, Len(b))

\* path.parse(p).name: the base name without its extension
ParseName(p) ==
    LET b == Basename(p)
    IN  SubSeq(b, 1, Len(b) - Len(Extname(p)))

\* the segments of p between slashes, empty ones included
RECURSIVE Segments(_)
Segments(p) ==
    IF \A i \in 1..Len(p) : p[i] # "/" THEN <<p>>
    ELSE LET i == CHOOSE k \in 1..Len(p) : p[k] = "/" /\ \A j \in 1..(k - 1) : p[j] # "/"
         IN  <<SubSeq(p, 1, i - 1)>> \o Segments(SubSeq(p, i + 1, Len(p)))

\* normalizeString: "." and empty segments dropped, ".." takes the segment
\* before it away (kept at the head of a relative path)
RECURSIVE NormalizeSegments(_, _, _)
NormalizeSegments(segs, out, absolute) ==
    IF segs = <<>> THEN out
    ELSE LET h == Head(segs)
             t == Tail(segs)
         IN  CASE h = <<>> \/ h = <<".">> -> NormalizeSegments(t, out, absolute)
               [] h = <<".", ".">> ->
                    IF out # <<>> /\ out[Len(out)] # <<".", ".">>
                    THEN NormalizeSegments(t, SubSeq(out, 1, Len(out) - 1), absolute)
                    ELSE IF absolute THEN NormalizeSegments(t, out, absolute)
                    ELSE NormalizeSegments(t, Append(out, h), absolute)
               [] OTHER -> NormalizeSegments(t, Append(out, h), absolute)

RECURSIVE JoinSegments(_)
JoinSegments(segs) ==
    IF segs = <<>> THEN <<>>
    ELSE IF Len(segs) = 1 THEN segs[1]
    ELSE segs[1] \o <<"/">> \o JoinSegments(Tail(segs))

\* path.normalize(p)
Normalize(p) ==
    IF p = <<>> THEN <<".">>
    ELSE LET absolute == p[1] = "/"
             trailing == p[Len(p)] = "/"
             body == JoinSegments(NormalizeSegments(Segments(p), <<>>, absolute))
         IN  IF body = <<>>
             THEN (IF absolute THEN <<"/">> ELSE IF trailing THEN <<".", "/">> ELSE <<".">>)
             ELSE (IF absolute THEN <<"/">> ELSE <<>>) \o body
                    \o (IF trailing THEN <<"/">> ELSE <<>>)

\* path.join(a, b): the non-empty arguments joined by "/", normalized
PathJoin(a, b) ==
    IF a = <<>> THEN Normalize(b)
    ELSE IF b = <<>> THEN Normalize(a)
    ELSE Normalize(a \o <<"/">> \o b)

PathJoin3(a, b, c) ==
    LET parts == SelectSeq(<<a, b, c>>, LAMBDA x : x # <<>>)
    IN  Normalize(JoinSegments(parts))

(***************************************************************************)
(* JSON.parse on the completions the service is taken to produce.          *)
(***************************************************************************)
ParseFailure == [ok |-> FALSE, value |-> NoAnswer]
Parsed(v) == [ok |-> TRUE, value |-> v]

JSONParse(content) ==
    CASE content = "{\"test\": true}" ->
            Parsed([EmptyObject EXCEPT !.test = JBool(TRUE)])
      [] content = "{\"test\": false}" ->
            Parsed([EmptyObject EXCEPT !.test = JBool(FALSE)])
      [] content = "{\"classification\": \"Episode\"}" ->
            Parsed([EmptyObject EXCEPT !.classification = JStr(<<"E", "p", "i", "s", "o", "d", "e">>)])
      [] content = "{\"classification\": \"Movie\"}" ->
            Parsed([EmptyObject EXCEPT !.classification = JStr(<<"M", "o", "v", "i", "e">>)])
      [] content = "{\"classification\": \"Series\"}" ->
            Parsed([EmptyObject EXCEPT !.classification = JStr(<<"S", "e", "r", "i", "e", "s">>)])
      [] content = "{\"episode\": 1}" -> Parsed([EmptyObject EXCEPT !.episode = JNum(1)])
      [] content = "{\"episode\": 2}" -> Parsed([EmptyObject EXCEPT !.episode = JNum(2)])
      [] content = "{\"episode\": 100}" -> Parsed([EmptyObject EXCEPT !.episode = JNum(100)])
      [] content = "{\"episode\": 0}" -> Parsed([EmptyObject EXCEPT !.episode = JNum(0)])
      [] content = "{\"episode\": -1}" -> Parsed([EmptyObject EXCEPT !.episode = JNum(-1)])
      [] content = "{\"episode\": \"x\"}" ->
            Parsed([EmptyObject EXCEPT !.episode = JStr(<<"x">>)])
      [] content = "{\"episode\": \"7\"}" ->
            Parsed([EmptyObject EXCEPT !.episode = JStr(<<"7">>)])
      [] content = "{\"series\": \"\"}" -> Parsed([EmptyObject EXCEPT !.series = JStr(<<>>)])
      [] content = "{\"series\": 24}" -> Parsed([EmptyObject EXCEPT !.series = JNum(24)])
      [] content = "{\"season\": 100}" -> Parsed([EmptyObject EXCEPT !.season = JNum(100)])
      [] content = "{\"season\": 0}" -> Parsed([EmptyObject EXCEPT !.season = JNum(0)])
      [] content = "{\"season\": \"x\"}" ->
            Parsed([EmptyObject EXCEPT !.season = JStr(<<"x">>)])
      [] content = "{\"series\": \"A\"}" ->
            Parsed([EmptyObject EXCEPT !.series = JStr(<<"A">>)])
      [] content = "{\"series\": \"B\"}" ->
            Parsed([EmptyObject EXCEPT !.series = JStr(<<"B">>)])
      [] content = "{\"series\": \"s/A\"}" ->
            Parsed([EmptyObject EXCEPT !.series = JStr(<<"s", "/", "A">>)])
      [] content = "{\"series\": \"..\"}" ->
            Parsed([EmptyObject EXCEPT !.series = JStr(<<".", ".">>)])
      [] content = "{\"series\": \"A.\"}" ->
            Parsed([EmptyObject EXCEPT !.series = JStr(<<"A", ".">>)])
      [] content = "{\"series\": \"A(\"}" ->
            Parsed([EmptyObject EXCEPT !.series = JStr(<<"A", "(">>)])
      [] content = "{\"matches\": true}" ->
            Parsed([EmptyObject EXCEPT !.matches = JBool(TRUE)])
      [] content = "{\"matches\": false}" ->
            Parsed([EmptyObject EXCEPT !.matches = JBool(FALSE)])
      [] content = "{\"matches\": \"yes\"}" ->
            Parsed([EmptyObject EXCEPT !.matches = JStr(<<"y", "e", "s">>)])
      [] content = "{\"season\": 1}" -> Parsed([EmptyObject EXCEPT !.season = JNum(1)])
      [] content = "{\"season\": 2}" -> Parsed([EmptyObject EXCEPT !.season = JNum(2)])
      [] content = "{}" -> Parsed(EmptyObject)
      [] content = "null" -> Parsed(NullValue)
      [] content = "Sure! Here is the JSON you asked for:" -> ParseFailure
      [] content = "" -> ParseFailure
      [] OTHER -> ParseFailure

(***************************************************************************)
(* The text-generation client: request(system, input, examples = []).      *)
(* chat is what ollama.chat did: it threw, or it returned a completion.    *)
(***************************************************************************)
Threw(kind) == [threw |-> TRUE, kind |-> kind, value |-> NoAnswer]
Returned(v) == [threw |-> FALSE, kind |-> "none", value |-> v]

TransportError == [threw |-> TRUE, content |-> ""]
Completion(c) == [threw |-> FALSE, content |-> c]

\* a request that also rejects an object without any of the fields
requestRejectsEmptyObject(chat) ==
    IF chat.threw
    THEN Threw("transport")
    ELSE LET p == JSONParse(chat.content)
         IN  IF p.ok /\ p.value # EmptyObject THEN Returned(p.value) ELSE Threw("parse")

request(chat) ==
    IF chat.threw
    THEN Threw("transport")
    ELSE LET p == JSONParse(chat.content)
         IN  IF p.ok THEN Returned(p.value) ELSE Threw("parse")

(***************************************************************************)
(* requestRetryWrapper: the loop condition, the arguments it passes to the *)
(* client, what a returned response and a caught error do to the loop, and *)
(* what the function resolves to when the loop ends without a return.      *)
(***************************************************************************)
RetryLoopContinuesOffByOne(t) == t <= MaxTries

RetryLoopContinues(t) == t < MaxTries

ClientArgsVaried(req, t) ==
    IF t = 0 THEN req ELSE [req EXCEPT !.input = Append(req.input, "!")]

ClientArgs(req, t) == req

PcAfterResponse == "return"

TriesAfterError(t) == t + 1

ExhaustedOutcome == Returned(NoAnswer)

(***************************************************************************)
(* RequestMap: a Map keyed by JSON.stringify(request).  A property whose   *)
(* value is undefined is left out of the serialized form.                  *)
(***************************************************************************)
NoExamples == [given |-> FALSE, list |-> <<>>]
Examples(list) == [given |-> TRUE, list |-> list]

JSONStringifyRequest(req) ==
    IF req.examples.given
    THEN <<"system", req.system, "input", req.input, "examples", req.examples.list>>
    ELSE <<"system", req.system, "input", req.input>>

RequestMapHasDefined(cache, req) ==
    /\ JSONStringifyRequest(req) \in DOMAIN cache
    /\ cache[JSONStringifyRequest(req)].k # "undefined"

RequestMapHas(cache, req) == JSONStringifyRequest(req) \in DOMAIN cache

RequestMapGet(cache, req) ==
    IF JSONStringifyRequest(req) \in DOMAIN cache
    THEN cache[JSONStringifyRequest(req)]
    ELSE NoAnswer

RequestMapSetNothing(cache, req, resp) == cache

\* a set that leaves a stored entry alone
RequestMapSetIfAbsent(cache, req, resp) ==
    IF JSONStringifyRequest(req) \in DOMAIN cache
    THEN cache
    ELSE [key \in DOMAIN cache \cup {JSONStringifyRequest(req)} |->
            IF key = JSONStringifyRequest(req) THEN resp ELSE cache[key]]

RequestMapSet(cache, req, resp) ==
    [key \in DOMAIN cache \cup {JSONStringifyRequest(req)} |->
        IF key = JSONStringifyRequest(req) THEN resp ELSE cache[key]]

(***************************************************************************)
(* The messages request(system, input, examples = []) sends to ollama.chat. *)
(***************************************************************************)
\* the fence marker appended to the input: three backquotes, written as one
\* character "<fence>", and json
FenceMarker == <<"<fence>", "j", "s", "o", "n">>

\* examples = []: the default stands in for an omitted argument
ExamplesOrDefault(examples) == IF examples.given THEN examples.list ELSE <<>>

DestructuredUsersFirst(list) ==
    [i \in 1..(2 * Len(list)) |->
        IF i <= Len(list) THEN [role |-> "user", content |-> list[i].input]
        ELSE [role |-> "assistant", content |-> list[i - Len(list)].output]]

\* examples.map(example => [user turn, assistant turn]), flattened by reduce
RECURSIVE Destructured(_)
Destructured(list) ==
    IF list = <<>> THEN <<>>
    ELSE <<[role |-> "user", content |-> Head(list).input],
           [role |-> "assistant", content |-> Head(list).output]>>
            \o Destructured(Tail(list))

ChatMessages(req) ==
    <<[role |-> "system", content |-> req.system]>>
        \o Destructured(ExamplesOrDefault(req.examples))
        \o <<[role |-> "user", content |-> req.input \o FenceMarker]>>

(***************************************************************************)
(* The service as the drivers meet it: for one request, the client fails   *)
(* `fails` times and then answers `chat`.  requestRetryWrapper and         *)
(* requestWrapper as functions of that behaviour.                          *)
(***************************************************************************)
ServiceReply(script, attemptNo) ==
    IF attemptNo <= script.fails THEN TransportError ELSE script.chat

Answers(content) == [fails |-> 0, chat |-> Completion(content)]
NeverAnswers == [fails |-> MaxTries, chat |-> TransportError]

RECURSIVE RetryLoop(_, _)
RECURSIVE RetryLoopStep(_, _, _)
RetryLoopStep(t, script, r) ==
    IF r.threw THEN RetryLoop(TriesAfterError(t), script) ELSE r

RetryLoop(t, script) ==
    IF RetryLoopContinues(t)
    THEN RetryLoopStep(t, script, request(ServiceReply(script, t + 1)))
    ELSE ExhaustedOutcome

requestRetryWrapper(script) == RetryLoop(0, script)

\* the invocations of the client the loop makes from try t on: one per pass,
\* the last being the one that returned
RECURSIVE RetryLoopInvocations(_, _)
RetryLoopInvocations(t, script) ==
    IF ~RetryLoopContinues(t) THEN 0
    ELSE IF request(ServiceReply(script, t + 1)).threw
    THEN 1 + RetryLoopInvocations(TriesAfterError(t), script)
    ELSE 1

\* the invocations a call of requestWrapper makes: none on a hit
requestWrapperInvocations(cache, req, script) ==
    IF RequestMapHas(cache, req) THEN 0 ELSE RetryLoopInvocations(0, script)

requestWrapperMissForgets(cache, req, r) ==
    [cache |-> cache, value |-> r.value]

requestWrapperMiss(cache, req, r) ==
    [cache |-> RequestMapSet(cache, req, r.value), value |-> r.value]

requestWrapper(cache, req, script) ==
    IF RequestMapHas(cache, req)
    THEN [cache |-> cache, value |-> RequestMapGet(cache, req)]
    ELSE requestWrapperMiss(cache, req, requestRetryWrapper(script))

(***************************************************************************)
(* lib.js: the requests of the classifier and of the three extractors.     *)
(* A prompt is named by its task; the few-shot lists are cut to one pair.  *)
(***************************************************************************)
EpisodeExamples ==
    Examples(<<[input |-> <<"F", " ", "-", " ", "S", "0", "3", "E", "0", "5">>,
                output |-> "{\"episode\": 5}"]>>)

SeriesExamples ==
    Examples(<<[input |-> <<"F", " ", "-", " ", "S", "0", "3", "E", "0", "5">>,
                output |-> "{\"series\": \"F\"}"]>>)

SeasonExamples ==
    Examples(<<[input |-> <<"T", " ", "-", " ", "2", "6">>,
                output |-> "{\"season\": 2}"]>>)

ClassifyExamples ==
    Examples(<<[input |-> <<"F", " ", "-", " ", "S", "0", "3", "E", "0", "5">>,
                output |-> "{\"classification\": \"Episode\"}"]>>)

EpisodeRequest(filePath) ==
    [system |-> "extract the episode number", input |-> filePath,
     examples |-> EpisodeExamples]

SeriesRequest(filePath) ==
    [system |-> "extract the full series name", input |-> filePath,
     examples |-> SeriesExamples]

SeasonRequest(filePath) ==
    [system |-> "extract the season number", input |-> filePath,
     examples |-> SeasonExamples]

ClassifyRequest(filePath) ==
    [system |-> "classify file paths", input |-> filePath,
     examples |-> ClassifyExamples]

\* what a function of lib.js hands back: the cache after it, whether it threw,
\* and its value
Result(cache, value) == [cache |-> cache, threw |-> FALSE, value |-> value]
Failure(cache) == [cache |-> cache, threw |-> TRUE, value |-> JUndef]

\* reading a property of undefined or null throws a TypeError
HasProperties(resp) == resp.k = "object"

getEpisodeNumberOfDefaultsToOne(w) ==
    IF ~HasProperties(w.value) THEN Failure(w.cache)
    ELSE IF ~Truthy(w.value.episode) THEN Result(w.cache, JNum(1))
    ELSE IF ParseInt(w.value.episode).t = "nan" THEN Failure(w.cache)
    ELSE Result(w.cache, ParseInt(w.value.episode))

\* w: what requestWrapper returned
getEpisodeNumberOf(w) ==
    IF ~HasProperties(w.value) THEN Failure(w.cache)
    ELSE IF ~Truthy(w.value.episode) THEN Failure(w.cache)
    ELSE IF ParseInt(w.value.episode).t = "nan" THEN Failure(w.cache)
    ELSE Result(w.cache, ParseInt(w.value.episode))

getEpisodeNumber(cache, filePath, script) ==
    getEpisodeNumberOf(requestWrapper(cache, EpisodeRequest(filePath), script))

getSeriesNameOf(w) ==
    IF ~HasProperties(w.value) THEN Failure(w.cache)
    ELSE IF ~Truthy(w.value.series) THEN Failure(w.cache)
    ELSE Result(w.cache, w.value.series)

getSeriesName(cache, filePath, script) ==
    getSeriesNameOf(requestWrapper(cache, SeriesRequest(filePath), script))

\* a missing answer is taken for season 1
getSeasonNumberOfDefaultsToOne(w) ==
    IF ~HasProperties(w.value) THEN Result(w.cache, JNum(1))
    ELSE IF ~Truthy(w.value.season) THEN Failure(w.cache)
    ELSE Result(w.cache, ParseInt(w.value.season))

getSeasonNumberOf(w) ==
    IF ~HasProperties(w.value) THEN Failure(w.cache)
    ELSE IF ~Truthy(w.value.season) THEN Failure(w.cache)
    ELSE Result(w.cache, ParseInt(w.value.season))

getSeasonNumber(cache, filePath, script) ==
    getSeasonNumberOf(requestWrapper(cache, SeasonRequest(filePath), script))

NoDetails == [series |-> JUndef, season |-> JUndef, episode |-> JUndef]

\* scripts: the service's behaviour for the episode, series and season requests
getDetailsSeason(e, n, a) ==
    IF a.threw THEN [cache |-> a.cache, threw |-> TRUE, value |-> NoDetails]
    ELSE [cache |-> a.cache, threw |-> FALSE,
          value |-> [series |-> n.value, season |-> a.value, episode |-> e.value]]

getDetailsSeries(e, n, filePath, scripts) ==
    IF n.threw THEN [cache |-> n.cache, threw |-> TRUE, value |-> NoDetails]
    ELSE getDetailsSeason(e, n, getSeasonNumber(n.cache, filePath, scripts.season))

getDetailsEpisodeContinues(e, filePath, scripts) ==
    IF e.threw
    THEN [cache |-> getSeriesName(e.cache, filePath, scripts.series).cache,
          threw |-> TRUE, value |-> NoDetails]
    ELSE getDetailsSeries(e, getSeriesName(e.cache, filePath, scripts.series),
                          filePath, scripts)

getDetailsEpisode(e, filePath, scripts) ==
    IF e.threw THEN [cache |-> e.cache, threw |-> TRUE, value |-> NoDetails]
    ELSE getDetailsSeries(e, getSeriesName(e.cache, filePath, scripts.series),
                          filePath, scripts)

getDetails(cache, filePath, scripts) ==
    getDetailsEpisode(getEpisodeNumber(cache, filePath, scripts.episode),
                      filePath, scripts)

Unrelated == JStr(<<"U", "n", "r", "e", "l", "a", "t", "e", "d">>)
Episode == JStr(<<"E", "p", "i", "s", "o", "d", "e">>)

classifyFileFallbackEpisode(w) ==
    IF HasProperties(w.value) /\ Truthy(w.value.classification)
    THEN Result(w.cache, w.value.classification)
    ELSE Result(w.cache, Episode)

classifyFileOfPropagates(w) ==
    IF HasProperties(w.value) /\ Truthy(w.value.classification)
    THEN Result(w.cache, w.value.classification)
    ELSE Failure(w.cache)

\* any error inside is caught and answered by 'Unrelated'
classifyFileOf(w) ==
    IF HasProperties(w.value) /\ Truthy(w.value.classification)
    THEN Result(w.cache, w.value.classification)
    ELSE Result(w.cache, Unrelated)

classifyFile(cache, filePath, script) ==
    classifyFileOf(requestWrapper(cache, ClassifyRequest(filePath), script))

IsEpisodeNotUnrelated(classification) == classification # Unrelated

\* classification !== 'Episode' is false
IsEpisode(classification) == classification = Episode

\* new RegExp(exp) throws a SyntaxError on a group that is not closed; "(" is
\* the one character of the names here that opens a group
RegExpCompiles(seriesName) ==
    \A i \in 1..Len(TemplateString(seriesName)) : TemplateString(seriesName)[i] # "("

\* new RegExp(`^${seriesName} S${paddedSeasonNumber}E\\d{2}$`).test(name), for a
\* series name in which "." is the only character special to a pattern
FormatRegExpTest(seriesName, paddedSeasonNumber, name) ==
    LET prefix == TemplateString(seriesName) \o <<" ", "S">> \o paddedSeasonNumber \o <<"E">>
    IN  /\ Len(name) = Len(prefix) + 2
        /\ \A i \in 1..Len(prefix) : prefix[i] = "." \/ prefix[i] = name[i]
        /\ IsDigit(name[Len(name) - 1])
        /\ IsDigit(name[Len(name)])

\* filePaths.every(...): the pattern is built anew for every path, so it is
\* built, and can throw, only if there is a path
batchSeason(n, a, filePaths) ==
    IF a.threw THEN Failure(a.cache)
    ELSE IF ~RegExpCompiles(n.value) THEN Failure(a.cache)
    ELSE Result(a.cache,
            \A i \in 1..Len(filePaths) :
                FormatRegExpTest(n.value, PadStart(NumberToString(a.value)),
                                 ParseName(Basename(filePaths[i]))))

batchSeries(n, filePaths, scripts) ==
    IF n.threw THEN Failure(n.cache)
    ELSE batchSeason(n, getSeasonNumber(n.cache, filePaths[1], scripts.season), filePaths)

batchClassifiedExtractsAlways(c, filePaths, scripts) ==
    batchSeries(getSeriesName(c.cache, filePaths[1], scripts.series), filePaths, scripts)

batchClassified(c, filePaths, scripts) ==
    IF ~IsEpisode(c.value) THEN Result(c.cache, FALSE)
    ELSE batchSeries(getSeriesName(c.cache, filePaths[1], scripts.series),
                     filePaths, scripts)

batchTryEmptyIsFalse(cache, filePaths, scripts) ==
    IF Len(filePaths) = 0 THEN Result(cache, FALSE)
    ELSE batchClassified(classifyFile(cache, filePaths[1], scripts.classify),
                         filePaths, scripts)

\* the body of the try block
batchTry(cache, filePaths, scripts) ==
    IF Len(filePaths) = 0 THEN Result(cache, TRUE)
    ELSE batchClassified(classifyFile(cache, filePaths[1], scripts.classify),
                         filePaths, scripts)

batchCatchNothing(r) == r

\* catch(e) { return false }
batchCatch(r) == IF r.threw THEN Result(r.cache, FALSE) ELSE r

\* scripts: the service's behaviour for the classification, series and season
\* requests about filePaths[0]
checkIfEpisodeMatchesFormatInBatch(cache, filePaths, scripts) ==
    batchCatch(batchTry(cache, filePaths, scripts))

\* JSON.stringify(filePaths), for paths without characters to escape
RECURSIVE JSONStringifyPaths(_)
JSONStringifyPaths(filePaths) ==
    IF Len(filePaths) = 0 THEN <<"[", "]">>
    ELSE IF Len(filePaths) = 1 THEN <<"[", "\"">> \o filePaths[1] \o <<"\"", "]">>
    ELSE <<"[", "\"">> \o filePaths[1] \o <<"\"", ",">>
            \o Tail(JSONStringifyPaths(Tail(filePaths)))

BatchAIExamples ==
    Examples(<<[input |-> JSONStringifyPaths(<<<<"F", " ", "-", " ", "S", "0", "3", "E", "0", "5">>>>),
                output |-> "{\"matches\": false}"]>>)

BatchAIRequest(filePaths) ==
    [system |-> "check whether the files all match the series format",
     input |-> JSONStringifyPaths(filePaths), examples |-> BatchAIExamples]

\* w: what requestWrapper returned; reading .matches of undefined or null
\* throws, as does a matches that is no boolean, and the catch throws again
checkIfEpisodeMatchesFormatInBatchAIOf(w) ==
    IF ~HasProperties(w.value) THEN Failure(w.cache)
    ELSE IF w.value.matches.t # "boolean" THEN Failure(w.cache)
    ELSE Result(w.cache, w.value.matches.n = 1)

checkIfEpisodeMatchesFormatInBatchAI(cache, filePaths, script) ==
    checkIfEpisodeMatchesFormatInBatchAIOf(
        requestWrapper(cache, BatchAIRequest(filePaths), script))

getNewFileName(seriesName, seasonNumber, episodeNumber, filePath) ==
    TemplateString(seriesName) \o <<" ", "S">> \o PadStart(NumberToString(seasonNumber))
        \o <<"E">> \o PadStart(NumberToString(episodeNumber)) \o Extname(filePath)

generateNewFilePathOfWithoutDirname(d, filePath) ==
    IF d.threw THEN [cache |-> d.cache, threw |-> TRUE, value |-> <<>>]
    ELSE IF d.value.series.t # "string"
    THEN [cache |-> d.cache, threw |-> TRUE, value |-> <<>>]
    ELSE [cache |-> d.cache, threw |-> FALSE,
          value |-> PathJoin3(TemplateString(d.value.series),
                        <<"S", "e", "a", "s", "o", "n", " ">>
                            \o PadStart(NumberToString(d.value.season)),
                        Basename(filePath))]

\* scripts: the service's behaviour for the three requests of getDetails
generateNewFilePathOf(d, filePath) ==
    IF d.threw THEN [cache |-> d.cache, threw |-> TRUE, value |-> <<>>]
    \* path.join throws a TypeError on an argument that is no string
    ELSE IF d.value.series.t # "string"
    THEN [cache |-> d.cache, threw |-> TRUE, value |-> <<>>]
    ELSE [cache |-> d.cache, threw |-> FALSE,
          value |-> PathJoin(Dirname(filePath),
                        PathJoin3(TemplateString(d.value.series),
                            <<"S", "e", "a", "s", "o", "n", " ">>
                                \o PadStart(NumberToString(d.value.season)),
                            Basename(filePath)))]

generateNewFilePathIncludingParentFolders(cache, filePath, scripts) ==
    generateNewFilePathOf(getDetails(cache, ParseName(Basename(filePath)), scripts),
                          filePath)

\* the for loop of getNewFilePathsIncludingParentFolders from the i-th path on;
\* service: the behaviour of the service for the requests about each stem
RECURSIVE getNewFilePathsLoop(_, _, _, _, _)
\* g: what generateNewFilePathIncludingParentFolders returned for the i-th path
getNewFilePathsPush(g, i, filePaths, service, newFilePaths) ==
    IF g.threw THEN [cache |-> g.cache, threw |-> TRUE, value |-> <<>>]
    ELSE getNewFilePathsLoop(g.cache, i + 1, filePaths, service,
            Append(newFilePaths, PathJoin(Dirname(filePaths[i]), g.value)))

getNewFilePathsLoop(cache, i, filePaths, service, newFilePaths) ==
    IF i > Len(filePaths) THEN [cache |-> cache, threw |-> FALSE, value |-> newFilePaths]
    ELSE getNewFilePathsPush(
            generateNewFilePathIncludingParentFolders(cache, filePaths[i],
                service[ParseName(Basename(filePaths[i]))]),
            i, filePaths, service, newFilePaths)

getNewFilePathsIncludingParentFolders(cache, filePaths, service) ==
    getNewFilePathsLoop(cache, 1, filePaths, service, <<>>)

checkIfFileIsAlreadyInCorrectFolerOfWholePath(g, filePath) ==
    IF g.threw THEN [cache |-> g.cache, threw |-> TRUE, value |-> FALSE]
    ELSE [cache |-> g.cache, threw |-> FALSE, value |-> filePath = g.value]

checkIfFileIsAlreadyInCorrectFolerOf(g, filePath) ==
    IF g.threw THEN [cache |-> g.cache, threw |-> TRUE, value |-> FALSE]
    ELSE [cache |-> g.cache, threw |-> FALSE, value |-> EndsWith(filePath, g.value)]

checkIfFileIsAlreadyInCorrectFoler(cache, filePath, scripts) ==
    checkIfFileIsAlreadyInCorrectFolerOf(
        generateNewFilePathIncludingParentFolders(cache, Basename(filePath), scripts),
        filePath)

(***************************************************************************)
(* The file system the drivers consume: readdir, rename, mkdir -p.         *)
(***************************************************************************)
IsFile(f, p) == p \in DOMAIN f.files
IsDirectory(f, p) == p \in f.dirs

\* p lies below directory d
Below(p, d) == StartsWith(p, IF d = <<"/">> THEN d ELSE d \o <<"/">>) /\ p # d

\* the entries of dir: full paths
Entries(f, dir) == {p \in DOMAIN f.files \cup f.dirs : Dirname(p) = dir /\ p # dir}

Orders(S) == {o \in [1..Cardinality(S) -> S] : \A i, j \in 1..Cardinality(S) : o[i] = o[j] => i = j}

\* p with its prefix old replaced by new
Reprefix(p, old, new) == new \o SubSeq(p, Len(old) + 1, Len(p))

FsThrew(f) == [threw |-> TRUE, fs |-> f]
FsDone(f) == [threw |-> FALSE, fs |-> f]

\* fs.renameSync(oldPath, newPath)
renameSync(f, oldPath, newPath) ==
    IF ~IsFile(f, oldPath) /\ ~IsDirectory(f, oldPath) THEN FsThrew(f)
    ELSE IF ~IsDirectory(f, Dirname(newPath)) THEN FsThrew(f)
    ELSE IF oldPath = newPath THEN FsDone(f)
    ELSE IF IsFile(f, oldPath)
    THEN IF IsDirectory(f, newPath) THEN FsThrew(f)
         ELSE FsDone([f EXCEPT !.files =
                        [p \in (DOMAIN f.files \ {oldPath}) \cup {newPath} |->
                            IF p = newPath THEN f.files[oldPath] ELSE f.files[p]]])
    ELSE IF IsFile(f, newPath) \/ Below(newPath, oldPath) THEN FsThrew(f)
         ELSE IF IsDirectory(f, newPath) /\ Entries(f, newPath) # {} THEN FsThrew(f)
         ELSE LET moved(p) == p = oldPath \/ Below(p, oldPath)
                  keptFiles == {p \in DOMAIN f.files : ~moved(p)}
                  movedFiles == {p \in DOMAIN f.files : moved(p)}
              IN  FsDone([files |->
                            [q \in keptFiles \cup {Reprefix(p, oldPath, newPath) : p \in movedFiles} |->
                                IF q \in keptFiles THEN f.files[q]
                                ELSE f.files[CHOOSE p \in movedFiles :
                                                Reprefix(p, oldPath, newPath) = q]],
                          dirs |-> {d \in f.dirs : ~moved(d)}
                                    \cup {Reprefix(d, oldPath, newPath) :
                                            d \in {e \in f.dirs : moved(e)}}])

\* p and the directories above it, up to the root or the working directory
RECURSIVE UpTo(_)
UpTo(p) ==
    IF p = <<"/">> \/ p = <<".">> \/ Dirname(p) = p THEN {}
    ELSE {p} \cup UpTo(Dirname(p))

\* no directory is made
mkdirSyncNothing(f, p) == FsDone(f)

\* fs.mkdirSync(p, { recursive: true })
mkdirSync(f, p) ==
    IF \E q \in UpTo(p) : IsFile(f, q) THEN FsThrew(f)
    ELSE FsDone([f EXCEPT !.dirs = f.dirs \cup UpTo(p)])

(***************************************************************************)
(* The api specification: a process that makes up to MaxCalls calls of     *)
(* requestWrapper, one after the other, against a service that may fail,   *)
(* answer something unparsable, or answer JSON.                            *)
(***************************************************************************)
ApiRequests ==
    { [system |-> "sysA", input |-> <<"i", "1">>, examples |-> NoExamples],
      [system |-> "sysA", input |-> <<"i", "2">>, examples |-> Examples(<<>>)] }

ApiChats ==
    { TransportError,
      Completion("Sure! Here is the JSON you asked for:"),
      Completion("{\"test\": true}"),
      Completion("null") }

NoRequest == [system |-> "", input |-> <<>>, examples |-> NoExamples]

NoAttempt ==
    [args |-> <<>>, entryCalls |-> 0, lastErr |-> "none", okAt |-> 0, okValue |-> NoAnswer]

\* one completed requestWrapper call: its request, whether the cache answered,
\* what it resolved to, and what the client was asked meanwhile
CallRecord(req, hit, outcome, att, fails, after) ==
    [req |-> req, hit |-> hit, outcome |-> outcome, args |-> att.args, fails |-> fails,
     lastErr |-> att.lastErr, okAt |-> att.okAt, okValue |-> att.okValue,
     callsBefore |-> att.entryCalls, callsAfter |-> after]

\* no function of lib.js has been called on its own
NoLibCall == [fn |-> "none"]

ApiInit ==
    /\ requestCache = <<>>
    /\ apiPc = "idle"
    /\ curReq = NoRequest
    /\ tries = 0
    /\ response = Returned(NoAnswer)
    /\ attempt = NoAttempt
    /\ clientCalls = 0
    /\ calls = <<>>
    /\ libCall = NoLibCall

DriverIdle ==
    /\ fs = [files |-> <<>>, dirs |-> {}]
    /\ program = "none"
    /\ drvPc = "start"
    /\ stack = <<>>
    /\ serviceMode = "any"
    /\ run = 1
    /\ visited = <<>>
    /\ log = <<>>

\* requestWrapper is entered: a hit returns at once, a miss enters the retry loop
RequestWrapperCall(req) ==
    /\ apiPc = "idle"
    /\ Len(calls) < MaxCalls
    /\ IF RequestMapHas(requestCache, req)
       THEN /\ calls' = Append(calls,
                    CallRecord(req, TRUE, Returned(RequestMapGet(requestCache, req)),
                               [NoAttempt EXCEPT !.entryCalls = clientCalls],
                               0, clientCalls))
            /\ UNCHANGED <<requestCache, apiPc, curReq, tries, response, attempt,
                           clientCalls>>
       ELSE /\ apiPc' = "retry"
            /\ curReq' = req
            /\ tries' = 0
            /\ attempt' = [NoAttempt EXCEPT !.entryCalls = clientCalls]
            /\ UNCHANGED <<requestCache, response, clientCalls, calls>>
    /\ UNCHANGED <<drvVars, libCall>>

\* the loop body with the client invoked but not awaited
RetryAttemptNotAwaited ==
    /\ apiPc = "retry"
    /\ RetryLoopContinues(tries)
    /\ apiPc' = "retry"
    /\ attempt' = [attempt EXCEPT !.args = Append(@, ClientArgs(curReq, tries))]
    /\ clientCalls' = clientCalls + 1
    /\ UNCHANGED <<requestCache, curReq, tries, response, calls>>
    /\ UNCHANGED <<drvVars, libCall>>

\* the loop body starts: the client is invoked and awaited
RetryAttempt ==
    /\ apiPc = "retry"
    /\ RetryLoopContinues(tries)
    /\ apiPc' = "await"
    /\ attempt' = [attempt EXCEPT !.args = Append(@, ClientArgs(curReq, tries))]
    /\ clientCalls' = clientCalls + 1
    /\ UNCHANGED <<requestCache, curReq, tries, response, calls>>
    /\ UNCHANGED <<drvVars, libCall>>

\* the awaited client call ends: it threw (caught, tries++) or it returned
\* (return response)
ClientRespond(chat) ==
    /\ apiPc = "await"
    /\ LET r == request(chat)
       IN  IF r.threw
           THEN /\ tries' = TriesAfterError(tries)
                /\ attempt' = [attempt EXCEPT !.lastErr = r.kind]
                /\ apiPc' = "retry"
                /\ UNCHANGED response
           ELSE /\ response' = r
                /\ attempt' = IF attempt.okAt = 0
                               THEN [attempt EXCEPT !.okAt = Len(attempt.args),
                                                    !.okValue = r.value]
                               ELSE attempt
                /\ apiPc' = PcAfterResponse
                /\ UNCHANGED tries
    /\ UNCHANGED <<requestCache, curReq, clientCalls, calls>>
    /\ UNCHANGED <<drvVars, libCall>>

\* the loop ends without a return: the function resolves to undefined
RetryExhausted ==
    /\ apiPc = "retry"
    /\ ~RetryLoopContinues(tries)
    /\ response' = ExhaustedOutcome
    /\ apiPc' = "return"
    /\ UNCHANGED <<requestCache, curReq, tries, attempt, clientCalls, calls>>
    /\ UNCHANGED <<drvVars, libCall>>

\* requestWrapper gets requestRetryWrapper's result, stores it and returns it
RequestWrapperReturn ==
    /\ apiPc = "return"
    /\ requestCache' = IF response.threw
                       THEN requestCache
                       ELSE RequestMapSet(requestCache, curReq, response.value)
    /\ calls' = Append(calls, CallRecord(curReq, FALSE, response, attempt, tries, clientCalls))
    /\ apiPc' = "idle"
    /\ curReq' = NoRequest
    /\ tries' = 0
    /\ response' = Returned(NoAnswer)
    /\ attempt' = NoAttempt
    /\ UNCHANGED clientCalls
    /\ UNCHANGED <<drvVars, libCall>>

ApiNext ==
    \/ \E req \in ApiRequests : RequestWrapperCall(req)
    \/ RetryAttempt
    \/ \E chat \in ApiChats : ClientRespond(chat)
    \/ RetryExhausted
    \/ RequestWrapperReturn

\* the api on its own: no driver runs
ApiSpecInit ==
    /\ ApiInit
    /\ DriverIdle

SpecApi == ApiSpecInit /\ [][ApiNext]_vars

(***************************************************************************)
(* requestWrapper with two callers in one process.  JavaScript runs a      *)
(* caller up to its next await, so a caller's steps are: the call up to    *)
(* the await of the client (the cache test and, on a miss, the first       *)
(* invocation), the end of an awaited invocation (on a failure the next    *)
(* invocation follows at once), and the continuation after the await of    *)
(* requestRetryWrapper (requestCache.set and the return).  Between these   *)
(* steps the other caller may run.  apiPc, curReq, tries, response and     *)
(* attempt hold one value per caller here.                                 *)
(***************************************************************************)
Callers == {1, 2}

Other(p) == 3 - p

MaxRaceCalls == 2

InFlight(p) == apiPc[p] \in {"await", "return"}

RaceRecord(p, req, hit, outcome, overlapped, stored, before) ==
    [caller |-> p, req |-> req, hit |-> hit, outcome |-> outcome,
     overlapped |-> overlapped, overwrote |-> stored, before |-> before]

RaceInit ==
    /\ requestCache = <<>>
    /\ apiPc = [p \in Callers |-> "idle"]
    /\ curReq = [p \in Callers |-> NoRequest]
    /\ tries = [p \in Callers |-> 0]
    /\ response = [p \in Callers |-> Returned(NoAnswer)]
    /\ attempt = [p \in Callers |-> [overlapped |-> FALSE]]
    /\ clientCalls = 0
    /\ calls = <<>>
    /\ libCall = NoLibCall
    /\ DriverIdle

\* caller p calls requestWrapper(req): a hit returns the stored response, a
\* miss invokes the client and awaits it
RaceCall(p, req) ==
    /\ apiPc[p] = "idle"
    /\ Len(calls) + Cardinality({q \in Callers : InFlight(q)}) < MaxRaceCalls
    /\ IF RequestMapHas(requestCache, req)
       THEN /\ calls' = Append(calls,
                    RaceRecord(p, req, TRUE, RequestMapGet(requestCache, req),
                               InFlight(Other(p)), FALSE, NoAnswer))
            /\ UNCHANGED <<apiPc, curReq, tries, attempt, clientCalls>>
       ELSE /\ apiPc' = [apiPc EXCEPT ![p] = "await"]
            /\ curReq' = [curReq EXCEPT ![p] = req]
            /\ tries' = [tries EXCEPT ![p] = 0]
            /\ attempt' = [q \in Callers |->
                            [overlapped |-> IF InFlight(Other(p)) THEN TRUE
                                            ELSE IF q = p THEN FALSE
                                            ELSE attempt[q].overlapped]]
            /\ clientCalls' = clientCalls + 1
            /\ UNCHANGED calls
    /\ UNCHANGED <<requestCache, response, drvVars, libCall>>

\* what the end of an awaited invocation does to caller p's retry loop
RaceResponded(p, r) ==
    IF ~r.threw
    THEN /\ response' = [response EXCEPT ![p] = r]
         /\ apiPc' = [apiPc EXCEPT ![p] = PcAfterResponse]
         /\ UNCHANGED <<tries, clientCalls>>
    ELSE /\ tries' = [tries EXCEPT ![p] = TriesAfterError(@)]
         /\ IF RetryLoopContinues(TriesAfterError(tries[p]))
            THEN /\ clientCalls' = clientCalls + 1
                 /\ UNCHANGED <<apiPc, response>>
            ELSE /\ response' = [response EXCEPT ![p] = ExhaustedOutcome]
                 /\ apiPc' = [apiPc EXCEPT ![p] = "return"]
                 /\ UNCHANGED clientCalls

RaceRespond(p, chat) ==
    /\ apiPc[p] = "await"
    /\ RaceResponded(p, request(chat))
    /\ UNCHANGED <<requestCache, curReq, attempt, calls, drvVars, libCall>>

\* requestCache.set(request, response); return response
RaceReturn(p) ==
    /\ apiPc[p] = "return"
    /\ requestCache' = RequestMapSet(requestCache, curReq[p], response[p].value)
    /\ calls' = Append(calls,
            RaceRecord(p, curReq[p], FALSE, response[p].value, attempt[p].overlapped,
                       RequestMapHas(requestCache, curReq[p]),
                       RequestMapGet(requestCache, curReq[p])))
    /\ apiPc' = [apiPc EXCEPT ![p] = "idle"]
    /\ curReq' = [curReq EXCEPT ![p] = NoRequest]
    /\ tries' = [tries EXCEPT ![p] = 0]
    /\ response' = [response EXCEPT ![p] = Returned(NoAnswer)]
    /\ attempt' = [attempt EXCEPT ![p] = [overlapped |-> FALSE]]
    /\ UNCHANGED <<clientCalls, drvVars, libCall>>

RaceNext ==
    \/ \E p \in Callers : \E req \in ApiRequests : RaceCall(p, req)
    \/ \E p \in Callers : \E chat \in ApiChats : RaceRespond(p, chat)
    \/ \E p \in Callers : RaceReturn(p)

SpecRace == RaceInit /\ [][RaceNext]_vars

(***************************************************************************)
(* The drivers.  One action is one loop iteration or one directory entry;  *)
(* the service's behaviour for each request that misses the cache is       *)
(* chosen freely among the behaviours the service mode allows.             *)
(***************************************************************************)
Root == <<"/", "r">>
SubFolder == <<"/", "r", "/", "s">>

RootNames ==
    { <<"x", ".", "m">>,
      <<"A", " ", "S", "0", "1", "E", "0", "1", ".", "m">>,
      <<"A", " ", "S", "0", "1", "E", "0", "2", ".", "m">> }

SubFolderNames == { <<"y", ".", "m">> }

Tree(rootNames, subNames) ==
    [files |-> [p \in {PathJoin(Root, n) : n \in rootNames}
                        \cup {PathJoin(SubFolder, n) : n \in subNames} |-> p],
     dirs |-> {<<"/">>, Root, SubFolder}]

Completions(kind) ==
    CASE kind = "classification" ->
            {"{\"classification\": \"Episode\"}", "{\"classification\": \"Movie\"}"}
      [] kind = "episode" -> {"{\"episode\": 1}"}
      [] kind = "series" -> {"{\"series\": \"A\"}", "{\"series\": \"s/A\"}"}
      [] kind = "season" -> {"{\"season\": 1}"}

\* a directory of episodes of one series and season
ResumeCompletions(kind) ==
    CASE kind = "classification" -> {"{\"classification\": \"Episode\"}"}
      [] kind = "episode" -> {"{\"episode\": 1}", "{\"episode\": 2}", "{\"episode\": 100}"}
      [] kind = "series" -> {"{\"series\": \"A\"}"}
      [] kind = "season" -> {"{\"season\": 1}"}

\* the renames that gave a file the path input
RenamedTo(input) ==
    {i \in DOMAIN log : log[i].outcome = "renamed" /\ log[i].newPath = input}

LastRenamedTo(input) ==
    log[CHOOSE i \in RenamedTo(input) : \A j \in RenamedTo(input) : j <= i]

\* about a file the driver has renamed, the service gives the answers the
\* rename was made from
ConsistentCompletions(kind, input) ==
    IF kind = "classification" \/ RenamedTo(input) = {} THEN ResumeCompletions(kind)
    ELSE {c \in ResumeCompletions(kind) :
            JSONParse(c).value[kind] = LastRenamedTo(input).details[kind]}

\* what the service may send while the rename driver walks a deeper tree
WalkCompletions(kind) ==
    CASE kind = "classification" ->
            {"{\"classification\": \"Episode\"}", "{\"classification\": \"Movie\"}"}
      [] kind = "episode" -> {"{\"episode\": 1}"}
      [] kind = "series" -> {"{\"series\": \"A\"}"}
      [] kind = "season" -> {"{\"season\": 1}"}

\* what the service may send when a function of lib.js is called on its own
LibCompletions(kind) ==
    CASE kind = "classification" ->
            {"{\"classification\": \"Episode\"}", "{\"classification\": \"Movie\"}",
             "{\"classification\": \"Series\"}", "{}", "null",
             "Sure! Here is the JSON you asked for:"}
      [] kind = "episode" -> {"{\"episode\": 1}", "{}"}
      [] kind = "series" ->
            {"{\"series\": \"A\"}", "{\"series\": \"A.\"}", "{\"series\": \"A(\"}", "{}"}
      [] kind = "season" -> {"{\"season\": 1}", "{\"season\": 2}", "{}"}
      [] kind = "matches" ->
            {"{\"matches\": true}", "{\"matches\": false}", "{\"matches\": \"yes\"}",
             "{}", "null", "Sure! Here is the JSON you asked for:"}

\* what the service may send when an extractor is called on its own
ExtractorCompletions(kind) ==
    CASE kind = "episode" ->
            {"{\"episode\": 1}", "{\"episode\": 100}", "{\"episode\": 0}",
             "{\"episode\": -1}", "{\"episode\": \"x\"}", "{\"episode\": \"7\"}",
             "{}", "null", "Sure! Here is the JSON you asked for:"}
      [] kind = "series" ->
            {"{\"series\": \"A\"}", "{\"series\": \"\"}", "{\"series\": 24}", "{}", "null"}
      [] kind = "season" ->
            {"{\"season\": 1}", "{\"season\": 100}", "{\"season\": 0}",
             "{\"season\": \"x\"}", "{}", "null"}

\* the transport fails on every attempt but the last one
AnswersAtLast(content) == [fails |-> MaxTries - 1, chat |-> Completion(content)]

\* the behaviours of the service for one request
Scripts(kind, input) ==
    CASE serviceMode = "down" -> {NeverAnswers}
      [] serviceMode = "lib" ->
            {Answers(c) : c \in LibCompletions(kind)}
                \cup {NeverAnswers, AnswersAtLast("{\"classification\": \"Episode\"}")}
      [] serviceMode = "any" -> {Answers(c) : c \in Completions(kind)} \cup {NeverAnswers}
      [] serviceMode = "walk" -> {Answers(c) : c \in WalkCompletions(kind)} \cup {NeverAnswers}
      [] serviceMode = "resume" -> {Answers(c) : c \in ConsistentCompletions(kind, input)}

\* the service is asked only for a request the cache does not hold
ScriptsOnMiss(cache, req, kind) ==
    IF RequestMapHas(cache, req) THEN {NeverAnswers} ELSE Scripts(kind, req.input)

AllScripts(cache, classified, extracted) ==
    [classify : ScriptsOnMiss(cache, ClassifyRequest(classified), "classification"),
     episode : ScriptsOnMiss(cache, EpisodeRequest(extracted), "episode"),
     series : ScriptsOnMiss(cache, SeriesRequest(extracted), "series"),
     season : ScriptsOnMiss(cache, SeasonRequest(extracted), "season")]

\* traverseDirectory(dir): the files and the subfolders of dir
FilesOf(f, dir) == {p \in Entries(f, dir) : IsFile(f, p)}
SubfoldersOf(f, dir) == {p \in Entries(f, dir) : IsDirectory(f, p)}

FilesToRenameAlways(matchesFormat, files) == files

\* if (matchesFormat) { log } else { for (const file of result.files) ... }
FilesToRename(matchesFormat, files) == IF matchesFormat THEN <<>> ELSE files

RenameLoopCatchesNothing == FALSE

\* the try/catch around the body of the for loop
RenameLoopCatches == TRUE

Iteration(cache, f, threw, outcome, classification, newPath, details) ==
    [cache |-> cache, fs |-> f, threw |-> threw, outcome |-> outcome,
     classification |-> classification, newPath |-> newPath, details |-> details]

\* the body of the for loop of renameFilesInDirectory, for one file
renamed(d, c, f, file, newFilePath, rn) ==
    IF rn.threw
    THEN Iteration(d.cache, f, TRUE, "failed", c.value, newFilePath, d.value)
    ELSE Iteration(d.cache, rn.fs, FALSE, "renamed", c.value, newFilePath, d.value)

renameTo(d, c, f, file, newFilePath) ==
    renamed(d, c, f, file, newFilePath, renameSync(f, file, newFilePath))

renameDetailed(d, c, f, file) ==
    IF d.threw
    THEN Iteration(d.cache, f, TRUE, "failed", c.value, <<>>, NoDetails)
    ELSE renameTo(d, c, f, file,
            PathJoin(Dirname(file),
                     getNewFileName(d.value.series, d.value.season, d.value.episode, file)))

renameClassified(c, f, file, scripts) ==
    IF ~IsEpisode(c.value)
    THEN Iteration(c.cache, f, FALSE, "skipped", c.value, <<>>, NoDetails)
    ELSE renameDetailed(getDetails(c.cache, file, scripts), c, f, file)

RenameIteration(cache, f, file, scripts) ==
    renameClassified(classifyFile(cache, file, scripts.classify), f, file, scripts)

\* the body of the for loop of moveAllFilesToCorrectFolders, for one entry
moved(g, c, mk, rn) ==
    IF rn.threw
    THEN Iteration(g.cache, mk.fs, TRUE, "failed", c.value, g.value, NoDetails)
    ELSE Iteration(g.cache, rn.fs, FALSE, "renamed", c.value, g.value, NoDetails)

moveMade(g, c, f, fullPath, mk) ==
    IF mk.threw
    THEN Iteration(g.cache, f, TRUE, "failed", c.value, g.value, NoDetails)
    ELSE moved(g, c, mk, renameSync(mk.fs, fullPath, g.value))

moveTo(g, c, f, fullPath) ==
    IF g.threw THEN Iteration(g.cache, f, TRUE, "failed", c.value, <<>>, NoDetails)
    ELSE moveMade(g, c, f, fullPath, mkdirSync(f, Dirname(g.value)))

moveChecked(a, c, f, fullPath, scripts) ==
    IF a.threw THEN Iteration(a.cache, f, TRUE, "failed", c.value, <<>>, NoDetails)
    ELSE IF a.value THEN Iteration(a.cache, f, FALSE, "skipped", c.value, <<>>, NoDetails)
    ELSE moveTo(generateNewFilePathIncludingParentFolders(a.cache, fullPath, scripts),
                c, f, fullPath)

moveClassified(c, f, dir, file, scripts) ==
    IF ~IsEpisode(c.value)
    THEN Iteration(c.cache, f, FALSE, "skipped", c.value, <<>>, NoDetails)
    ELSE moveChecked(checkIfFileIsAlreadyInCorrectFoler(c.cache, file, scripts),
                     c, f, PathJoin(dir, file), scripts)

MoveIteration(cache, f, dir, file, scripts) ==
    moveClassified(classifyFile(cache, file, scripts.classify), f, dir, file, scripts)

Top == stack[Len(stack)]
Below1 == SubSeq(stack, 1, Len(stack) - 1)

LogEntry(file, it) ==
    [run |-> run, dir |-> Top.dir, file |-> file, outcome |-> it.outcome,
     classification |-> it.classification, newPath |-> it.newPath,
     details |-> it.details]

EnteredSkipsSubfoldersOfConformant(dir, below, files, subfolders, b) ==
    /\ requestCache' = b.cache
    /\ stack' = Append(below,
            [dir |-> dir, files |-> FilesToRename(b.value, files),
             subfolders |-> IF b.value THEN <<>> ELSE subfolders, matches |-> b.value])
    /\ visited' = Append(visited,
            [run |-> run, dir |-> dir, matches |-> b.value, files |-> files,
             subfolders |-> subfolders])

\* b: what the batch check of the directory's files returned
Entered(dir, below, files, subfolders, b) ==
    /\ requestCache' = b.cache
    /\ stack' = Append(below,
            [dir |-> dir, files |-> FilesToRename(b.value, files),
             subfolders |-> subfolders, matches |-> b.value])
    /\ visited' = Append(visited,
            [run |-> run, dir |-> dir, matches |-> b.value, files |-> files,
             subfolders |-> subfolders])

FirstOf(files) == IF Len(files) = 0 THEN <<>> ELSE files[1]

\* renameFilesInDirectory(dir) up to its loop: the traversal and the batch check
EnterDirectory(dir, below) ==
    \E files \in Orders(FilesOf(fs, dir)) :
    \E subfolders \in Orders(SubfoldersOf(fs, dir)) :
    \E scripts \in AllScripts(requestCache, FirstOf(files), FirstOf(files)) :
        Entered(dir, below, files, subfolders,
                checkIfEpisodeMatchesFormatInBatch(requestCache, files, scripts))

\* it: what the body of the loop did for the file at the head of the list
Iterated(it) ==
    /\ requestCache' = it.cache
    /\ fs' = it.fs
    /\ log' = Append(log, LogEntry(Head(Top.files), it))
    /\ IF it.threw /\ ~RenameLoopCatches
       THEN drvPc' = "raised" /\ stack' = <<>>
       ELSE /\ drvPc' = drvPc
            /\ stack' = Append(Below1, [Top EXCEPT !.files = Tail(@)])

\* index.js: renameFilesInDirectory(root)
StartRename ==
    /\ drvPc = "start"
    /\ program' = "rename"
    /\ drvPc' = "walk"
    /\ EnterDirectory(Root, <<>>)
    /\ UNCHANGED <<apiCallVars, fs, serviceMode, run, log>>

\* one iteration of the loop over result.files
RenameFile ==
    /\ drvPc = "walk"
    /\ program = "rename"
    /\ stack # <<>>
    /\ Top.files # <<>>
    /\ \E scripts \in AllScripts(requestCache, Head(Top.files), Head(Top.files)) :
        Iterated(RenameIteration(requestCache, fs, Head(Top.files), scripts))
    /\ UNCHANGED <<apiCallVars, program, serviceMode, run, visited>>

\* the loop over result.subfolders: renameFilesInDirectory(subfolder.path)
Descend ==
    /\ drvPc = "walk"
    /\ program = "rename"
    /\ stack # <<>>
    /\ Top.files = <<>>
    /\ Top.subfolders # <<>>
    /\ EnterDirectory(Head(Top.subfolders),
                      Append(Below1, [Top EXCEPT !.subfolders = Tail(@)]))
    /\ UNCHANGED <<apiCallVars, fs, program, drvPc, serviceMode, run, log>>

\* a driver call returns
Return ==
    /\ drvPc = "walk"
    /\ stack # <<>>
    /\ Top.files = <<>>
    /\ Top.subfolders = <<>>
    /\ stack' = Below1
    /\ drvPc' = IF Len(stack) = 1 THEN "done" ELSE "walk"
    /\ UNCHANGED <<apiVars, fs, program, serviceMode, run, visited, log>>

\* moveAllFilesToCorrectFolders(root): fs.readdirSync gives the entries' names
StartMove ==
    /\ drvPc = "start"
    /\ program' = "move"
    /\ drvPc' = "walk"
    /\ \E entries \in Orders(Entries(fs, Root)) :
        /\ stack' = <<[dir |-> Root,
                       files |-> [i \in 1..Len(entries) |-> Basename(entries[i])],
                       subfolders |-> <<>>, matches |-> FALSE]>>
        /\ visited' = Append(visited,
                [run |-> run, dir |-> Root, matches |-> FALSE,
                 files |-> [i \in 1..Len(entries) |-> Basename(entries[i])],
                 subfolders |-> <<>>])
    /\ UNCHANGED <<apiVars, fs, serviceMode, run, log>>

\* one iteration of the loop over the entries
MoveFile ==
    /\ drvPc = "walk"
    /\ program = "move"
    /\ stack # <<>>
    /\ Top.files # <<>>
    /\ \E scripts \in AllScripts(requestCache, Head(Top.files),
                                ParseName(Head(Top.files))) :
        Iterated(MoveIteration(requestCache, fs, Top.dir, Head(Top.files), scripts))
    /\ UNCHANGED <<apiCallVars, program, serviceMode, run, visited>>

\* files in the initial trees
MaxFiles == 2

InitialTrees ==
    {Tree(a, b) : <<a, b>> \in {t \in (SUBSET RootNames) \X (SUBSET SubFolderNames) :
                                    Cardinality(t[1]) + Cardinality(t[2]) <= MaxFiles}}

DriverInit ==
    /\ ApiInit
    /\ fs \in InitialTrees
    /\ program = "none"
    /\ drvPc = "start"
    /\ stack = <<>>
    /\ serviceMode = "any"
    /\ run = 1
    /\ visited = <<>>
    /\ log = <<>>

DriverNext ==
    \/ StartRename
    \/ RenameFile
    \/ Descend
    \/ Return
    \/ StartMove
    \/ MoveFile

SpecDriver == DriverInit /\ [][DriverNext]_vars

(***************************************************************************)
(* The rename driver while every call to the service fails.  The process   *)
(* runs to its end: each step that can be taken is taken.                  *)
(***************************************************************************)
OutageInit ==
    /\ ApiInit
    /\ fs \in InitialTrees
    /\ program = "none"
    /\ drvPc = "start"
    /\ stack = <<>>
    /\ serviceMode = "down"
    /\ run = 1
    /\ visited = <<>>
    /\ log = <<>>

OutageNext ==
    \/ StartRename
    \/ RenameFile
    \/ Descend
    \/ Return
    \/ StartMove
    \/ MoveFile

SpecOutage == OutageInit /\ [][OutageNext]_vars /\ WF_vars(OutageNext)

(***************************************************************************)
(* The rename driver on a tree with nested and sibling directories.  The   *)
(* process is one chain of awaited calls: a step that can be taken is      *)
(* taken.                                                                  *)
(***************************************************************************)
NestedFolder == SubFolder \o <<"/", "e">>
SiblingFolder == Root \o <<"/", "f">>

WalkDirectories == {Root, SubFolder, NestedFolder, SiblingFolder}

WalkFiles ==
    {PathJoin(Root, <<"x", ".", "m">>),
     PathJoin(Root, <<"A", " ", "S", "0", "1", "E", "0", "1", ".", "m">>),
     PathJoin(SubFolder, <<"y", ".", "m">>),
     PathJoin(NestedFolder, <<"z", ".", "m">>),
     PathJoin(SiblingFolder, <<"A", " ", "S", "0", "1", "E", "0", "2", ".", "m">>)}

WalkTrees ==
    {[files |-> [p \in paths |-> p], dirs |-> {<<"/">>} \cup WalkDirectories] :
        paths \in {q \in SUBSET WalkFiles : Cardinality(q) <= MaxFiles}}

WalkInit ==
    /\ ApiInit
    /\ fs \in WalkTrees
    /\ program = "none"
    /\ drvPc = "start"
    /\ stack = <<>>
    /\ serviceMode = "walk"
    /\ run = 1
    /\ visited = <<>>
    /\ log = <<>>

WalkNext ==
    \/ StartRename
    \/ RenameFile
    \/ Descend
    \/ Return

\* the guards of WalkNext's actions: a call is about to be made, or one is
\* in progress (its loops never block, every await is answered or throws)
WalkEnabled == drvPc = "start" \/ (drvPc = "walk" /\ stack # <<>>)

\* weak fairness of WalkNext, its enabling condition written out as
\* WalkEnabled; the return of a finished call is the one step stated by WF
WalkFair ==
    /\ WF_vars(Return)
    /\ ([]<><<WalkNext>>_vars \/ []<>~WalkEnabled)

SpecWalk == WalkInit /\ [][WalkNext]_vars /\ WalkFair

(***************************************************************************)
(* The rename driver run again over a directory it has renamed, each run   *)
(* a new process with an empty cache.                                      *)
(***************************************************************************)
MaxRuns == 2

ResumeNames == { <<"x", ".", "m">>, <<"z", ".", "m">> }

ResumeTrees ==
    {Tree(a, {}) : a \in {n \in SUBSET ResumeNames :
                            Cardinality(n) >= 1 /\ Cardinality(n) <= MaxFiles}}

ResumeInit ==
    /\ ApiInit
    /\ fs \in ResumeTrees
    /\ program = "none"
    /\ drvPc = "start"
    /\ stack = <<>>
    /\ serviceMode = "resume"
    /\ run = 1
    /\ visited = <<>>
    /\ log = <<>>

\* the process has ended and the service is started again
NextRun ==
    /\ drvPc = "done"
    /\ run < MaxRuns
    /\ run' = run + 1
    /\ drvPc' = "start"
    /\ program' = "none"
    /\ requestCache' = <<>>
    /\ UNCHANGED <<apiCallVars, fs, stack, serviceMode, visited, log>>

ResumeNext ==
    \/ StartRename
    \/ RenameFile
    \/ Descend
    \/ Return
    \/ NextRun

SpecResume == ResumeInit /\ [][ResumeNext]_vars

(***************************************************************************)
(* The move driver run on a season folder: moveAllFilesToCorrectFolders is *)
(* given a directory /r/A/Season 01 whose files may already be where the   *)
(* service's answers place them.                                           *)
(***************************************************************************)
SeasonFolder ==
    <<"/", "r", "/", "A", "/", "S", "e", "a", "s", "o", "n", " ", "0", "1">>

SeasonFolderNames == { <<"x", ".", "m">>, <<"y", ".", "m">>, <<"z", ".", "m">> }

SeasonTrees ==
    {[files |-> [p \in {PathJoin(SeasonFolder, n) : n \in names} |-> p],
      dirs |-> {<<"/">>} \cup UpTo(SeasonFolder)] :
        names \in {n \in SUBSET SeasonFolderNames :
                        Cardinality(n) >= 1 /\ Cardinality(n) <= MaxFiles}}

SeasonInit ==
    /\ ApiInit
    /\ fs \in SeasonTrees
    /\ program = "none"
    /\ drvPc = "start"
    /\ stack = <<>>
    /\ serviceMode = "any"
    /\ run = 1
    /\ visited = <<>>
    /\ log = <<>>

\* moveAllFilesToCorrectFolders(dir): fs.readdirSync(dir) gives the names
StartMoveIn(dir) ==
    /\ drvPc = "start"
    /\ program' = "move"
    /\ drvPc' = "walk"
    /\ \E entries \in Orders(Entries(fs, dir)) :
        /\ stack' = <<[dir |-> dir,
                       files |-> [i \in 1..Len(entries) |-> Basename(entries[i])],
                       subfolders |-> <<>>, matches |-> FALSE]>>
        /\ visited' = Append(visited,
                [run |-> run, dir |-> dir, matches |-> FALSE,
                 files |-> [i \in 1..Len(entries) |-> Basename(entries[i])],
                 subfolders |-> <<>>])
    /\ UNCHANGED <<apiVars, fs, serviceMode, run, log>>

StartMoveInSeasonFolder == StartMoveIn(SeasonFolder)

SeasonNext ==
    \/ StartMoveInSeasonFolder
    \/ MoveFile
    \/ Return

SpecSeason == SeasonInit /\ [][SeasonNext]_vars

(***************************************************************************)
(* The functions of lib.js called on their own: one call, on a cache left  *)
(* by earlier calls of the process, with any behaviour of the service.     *)
(***************************************************************************)
\* paths in a batch
MaxBatch == 2

LibBatchPaths ==
    { <<"A", " ", "S", "0", "1", "E", "0", "1", ".", "m">>,
      <<"d", "/", "A", " ", "S", "0", "1", "E", "0", "2", ".", "m">>,
      <<"A", ".", " ", "S", "0", "1", "E", "0", "1", ".", "m">>,
      <<"A", "b", " ", "S", "0", "1", "E", "0", "1", ".", "m">>,
      <<"A", "(", " ", "S", "0", "1", "E", "0", "1", ".", "m">>,
      <<"A", " ", "S", "0", "1", "E", "0", "1", "2", ".", "m">>,
      <<"x", ".", "m">> }

LibBatches == UNION {[1..n -> LibBatchPaths] : n \in 0..MaxBatch}

LibPaths ==
    { <<"x", ".", "m">>,
      <<"d", "/", "x", ".", "m">>,
      <<"/", "r", "/", "x", ".", "m">>,
      <<"A", "/", "S", "e", "a", "s", "o", "n", " ", "0", "1", "/", "x", ".", "m">>,
      <<"/", "r", "/", "A", "/", "S", "e", "a", "s", "o", "n", " ", "0", "2", "/", "x", ".", "m">> }

EpisodeOfA ==
    [classify |-> Answers("{\"classification\": \"Episode\"}"),
     episode |-> Answers("{\"episode\": 1}"),
     series |-> Answers("{\"series\": \"A\"}"),
     season |-> Answers("{\"season\": 1}")]

\* caches earlier calls of the process have left
LibCaches ==
    { <<>>,
      checkIfEpisodeMatchesFormatInBatch(<<>>,
          <<<<"A", " ", "S", "0", "1", "E", "0", "1", ".", "m">>>>, EpisodeOfA).cache,
      getDetails(<<>>, <<"x">>, EpisodeOfA).cache,
      classifyFile(<<>>, <<"x", ".", "m">>, NeverAnswers).cache }

LibInit ==
    /\ requestCache \in LibCaches
    /\ apiPc = "idle"
    /\ curReq = NoRequest
    /\ tries = 0
    /\ response = Returned(NoAnswer)
    /\ attempt = NoAttempt
    /\ clientCalls = 0
    /\ calls = <<>>
    /\ libCall = NoLibCall
    /\ fs = [files |-> <<>>, dirs |-> {}]
    /\ program = "none"
    /\ drvPc = "start"
    /\ stack = <<>>
    /\ serviceMode = "lib"
    /\ run = 1
    /\ visited = <<>>
    /\ log = <<>>

\* the call has not been made a second time
NotAgain == [made |-> FALSE]

LibCall(fn, input, scripts, result) ==
    [fn |-> fn, input |-> input, before |-> requestCache, scripts |-> scripts,
     result |-> result, again |-> NotAgain]

\* the call is made: the cache is what the function left, the rest stands still
Called(call) ==
    /\ libCall' = call
    /\ requestCache' = call.result.cache
    /\ UNCHANGED <<apiPc, curReq, tries, response, attempt, clientCalls, calls, drvVars>>

ClassifyFileCall ==
    /\ libCall = NoLibCall
    /\ \E filePath \in LibPaths :
       \E script \in ScriptsOnMiss(requestCache, ClassifyRequest(filePath), "classification") :
            Called(LibCall("classifyFile", filePath, script,
                           classifyFile(requestCache, filePath, script)))

BatchScripts(cache, filePaths) ==
    [classify : ScriptsOnMiss(cache, ClassifyRequest(FirstOf(filePaths)), "classification"),
     series : ScriptsOnMiss(cache, SeriesRequest(FirstOf(filePaths)), "series"),
     season : ScriptsOnMiss(cache, SeasonRequest(FirstOf(filePaths)), "season")]

BatchCall ==
    /\ libCall = NoLibCall
    /\ \E filePaths \in LibBatches :
       \E scripts \in BatchScripts(requestCache, filePaths) :
            Called(LibCall("checkIfEpisodeMatchesFormatInBatch", filePaths, scripts,
                           checkIfEpisodeMatchesFormatInBatch(requestCache, filePaths, scripts)))

BatchAICall ==
    /\ libCall = NoLibCall
    /\ \E filePaths \in LibBatches :
       \E script \in ScriptsOnMiss(requestCache, BatchAIRequest(filePaths), "matches") :
            Called(LibCall("checkIfEpisodeMatchesFormatInBatchAI", filePaths, script,
                           checkIfEpisodeMatchesFormatInBatchAI(requestCache, filePaths, script)))

DetailsScripts(cache, name) ==
    [episode : ScriptsOnMiss(cache, EpisodeRequest(name), "episode"),
     series : ScriptsOnMiss(cache, SeriesRequest(name), "series"),
     season : ScriptsOnMiss(cache, SeasonRequest(name), "season")]

PlanPathCall ==
    /\ libCall = NoLibCall
    /\ \E filePath \in LibPaths :
       \E scripts \in DetailsScripts(requestCache, ParseName(Basename(filePath))) :
            Called(LibCall("generateNewFilePathIncludingParentFolders", filePath, scripts,
                           generateNewFilePathIncludingParentFolders(requestCache, filePath,
                                                                     scripts)))

AlreadyCorrectCall ==
    /\ libCall = NoLibCall
    /\ \E filePath \in LibPaths :
       \E scripts \in DetailsScripts(requestCache, ParseName(Basename(filePath))) :
            Called(LibCall("checkIfFileIsAlreadyInCorrectFoler", filePath, scripts,
                           checkIfFileIsAlreadyInCorrectFoler(requestCache, filePath, scripts)))

\* the behaviours of the service for the request of an extractor
ExtractorScripts(cache, req, kind) ==
    IF RequestMapHas(cache, req) THEN {NeverAnswers}
    ELSE {Answers(c) : c \in ExtractorCompletions(kind)} \cup {NeverAnswers}

GetEpisodeNumberCall ==
    /\ libCall = NoLibCall
    /\ \E filePath \in LibPaths :
       \E script \in ExtractorScripts(requestCache, EpisodeRequest(filePath), "episode") :
            Called(LibCall("getEpisodeNumber", filePath, script,
                           getEpisodeNumber(requestCache, filePath, script)))

GetSeriesNameCall ==
    /\ libCall = NoLibCall
    /\ \E filePath \in LibPaths :
       \E script \in ExtractorScripts(requestCache, SeriesRequest(filePath), "series") :
            Called(LibCall("getSeriesName", filePath, script,
                           getSeriesName(requestCache, filePath, script)))

GetSeasonNumberCall ==
    /\ libCall = NoLibCall
    /\ \E filePath \in LibPaths :
       \E script \in ExtractorScripts(requestCache, SeasonRequest(filePath), "season") :
            Called(LibCall("getSeasonNumber", filePath, script,
                           getSeasonNumber(requestCache, filePath, script)))

ExtractorsScripts(cache, filePath) ==
    [episode : ExtractorScripts(cache, EpisodeRequest(filePath), "episode"),
     series : ExtractorScripts(cache, SeriesRequest(filePath), "series"),
     season : ExtractorScripts(cache, SeasonRequest(filePath), "season")]

GetDetailsCall ==
    /\ libCall = NoLibCall
    /\ \E filePath \in LibPaths \cup {<<"x">>} :
       \E scripts \in ExtractorsScripts(requestCache, filePath) :
            Called(LibCall("getDetails", filePath, scripts,
                           getDetails(requestCache, filePath, scripts)))

\* the paths of a list to plan: two stems, with and without a directory
PlanListPaths ==
    { <<"x", ".", "m">>, <<"y", ".", "m">>, <<"d", "/", "x", ".", "m">> }

PlanLists == UNION {[1..n -> PlanListPaths] : n \in 0..MaxBatch}

\* the service about one stem: one or another series, one or another season
PlanServices ==
    [{<<"x">>, <<"y">>} ->
        [episode : {Answers("{\"episode\": 1}")},
         series : {Answers("{\"series\": \"A\"}"), Answers("{\"series\": \"B\"}"),
                   NeverAnswers},
         season : {Answers("{\"season\": 1}"), Answers("{\"season\": 2}")}]]

NewFilePathsCall ==
    /\ libCall = NoLibCall
    /\ \E filePaths \in PlanLists :
       \E service \in PlanServices :
            Called(LibCall("getNewFilePathsIncludingParentFolders", filePaths, service,
                           getNewFilePathsIncludingParentFolders(requestCache, filePaths,
                                                                 service)))

\* the functions called twice in sequence with the same argument
RepeatedFunctions ==
    {"classifyFile", "getEpisodeNumber", "getSeriesName", "getSeasonNumber",
     "checkIfEpisodeMatchesFormatInBatch"}

\* what the service would do if it were asked at the second call
AgainServices ==
    { [classify |-> Answers("{\"classification\": \"Episode\"}"),
       episode |-> Answers("{\"episode\": 1}"),
       series |-> Answers("{\"series\": \"A\"}"),
       season |-> Answers("{\"season\": 1}")],
      [classify |-> Answers("{\"classification\": \"Movie\"}"),
       episode |-> Answers("{\"episode\": 2}"),
       series |-> Answers("{\"series\": \"B\"}"),
       season |-> Answers("{\"season\": 2}")],
      [classify |-> NeverAnswers, episode |-> NeverAnswers, series |-> NeverAnswers,
       season |-> NeverAnswers] }

CallOf(fn, cache, input, service) ==
    CASE fn = "classifyFile" -> classifyFile(cache, input, service.classify)
      [] fn = "getEpisodeNumber" -> getEpisodeNumber(cache, input, service.episode)
      [] fn = "getSeriesName" -> getSeriesName(cache, input, service.series)
      [] fn = "getSeasonNumber" -> getSeasonNumber(cache, input, service.season)
      [] fn = "checkIfEpisodeMatchesFormatInBatch" ->
            checkIfEpisodeMatchesFormatInBatch(cache, input, service)

\* r: what the second call returned
CalledAgain(service, r) ==
    /\ libCall' = [libCall EXCEPT !.again = [made |-> TRUE, service |-> service, result |-> r]]
    /\ requestCache' = r.cache
    /\ UNCHANGED <<apiPc, curReq, tries, response, attempt, clientCalls, calls, drvVars>>

\* the same function is called again with the same argument, in the same process
CallAgain ==
    /\ libCall.fn \in RepeatedFunctions
    /\ ~libCall.again.made
    /\ \E service \in AgainServices :
            CalledAgain(service, CallOf(libCall.fn, requestCache, libCall.input, service))

\* few-shot pairs
MessagePairs ==
    { [input |-> <<"p">>, output |-> "{\"episode\": 5}"],
      [input |-> <<"q">>, output |-> "{\"episode\": 26}"] }

\* few-shot lists of up to MaxExamples pairs
MaxExamples == 2

MessageExamples ==
    {NoExamples} \cup {Examples(list) : list \in UNION {[1..n -> MessagePairs] : n \in 0..MaxExamples}}

MessageRequests ==
    [system : {"extract the episode number"},
     input : {<<>>, <<"x", ".", "m">>},
     examples : MessageExamples]

\* request(system, input, examples) up to its call of ollama.chat
RequestMessagesCall ==
    /\ libCall = NoLibCall
    /\ \E req \in MessageRequests :
            Called(LibCall("request", req, NeverAnswers, Result(requestCache, ChatMessages(req))))

\* the planner's answer handed to the check of the folder
RoundTripCompletions(kind) ==
    CASE kind = "episode" -> {"{\"episode\": 1}"}
      [] kind = "series" -> {"{\"series\": \"A\"}", "{\"series\": \"s/A\"}", "{\"series\": \"..\"}"}
      [] kind = "season" -> {"{\"season\": 1}", "{\"season\": 2}"}

RoundTripScriptsOf(cache, req, kind) ==
    IF RequestMapHas(cache, req) THEN {NeverAnswers}
    ELSE {Answers(c) : c \in RoundTripCompletions(kind)} \cup {NeverAnswers}

RoundTripScripts(cache, name) ==
    [episode : RoundTripScriptsOf(cache, EpisodeRequest(name), "episode"),
     series : RoundTripScriptsOf(cache, SeriesRequest(name), "series"),
     season : RoundTripScriptsOf(cache, SeasonRequest(name), "season")]

RoundTripPaths ==
    { <<"x", ".", "m">>, <<"d", "/", "x", ".", "m">>, <<"/", "r", "/", "x", ".", "m">> }

\* the service does not answer any more
ServiceGone == [episode |-> NeverAnswers, series |-> NeverAnswers, season |-> NeverAnswers]

\* a: what checkIfFileIsAlreadyInCorrectFoler returned for the planned path
RoundTripChecked(g, a) ==
    [cache |-> a.cache, threw |-> a.threw,
     value |-> [planned |-> g.value, already |-> a.value]]

\* g: what generateNewFilePathIncludingParentFolders returned
RoundTripPlanned(g) ==
    IF g.threw THEN [cache |-> g.cache, threw |-> TRUE, value |-> [planned |-> <<>>, already |-> FALSE]]
    ELSE RoundTripChecked(g, checkIfFileIsAlreadyInCorrectFoler(g.cache, g.value, ServiceGone))

\* checkIfFileIsAlreadyInCorrectFoler(await generateNewFilePathIncludingParentFolders(p))
RoundTripCall ==
    /\ libCall = NoLibCall
    /\ \E filePath \in RoundTripPaths :
       \E scripts \in RoundTripScripts(requestCache, ParseName(Basename(filePath))) :
            Called(LibCall("roundTrip", filePath, scripts,
                RoundTripPlanned(
                    generateNewFilePathIncludingParentFolders(requestCache, filePath, scripts))))

(***************************************************************************)
(* RequestMap's key, character by character: JSON.stringify of the object  *)
(* {system, input, examples}.  A property whose value is undefined is left *)
(* out; a string is quoted, its quotes and backslashes escaped.            *)
(***************************************************************************)
OpenSystem ==
    <<"{", "\"", "s", "y", "s", "t", "e", "m", "\"", ":">>

CommaInput ==
    <<",", "\"", "i", "n", "p", "u", "t", "\"", ":">>

CommaExamples ==
    <<",", "\"", "e", "x", "a", "m", "p", "l", "e", "s", "\"", ":">>

OpenExample ==
    <<"{", "\"", "i", "n", "p", "u", "t", "\"", ":">>

CommaOutput ==
    <<",", "\"", "o", "u", "t", "p", "u", "t", "\"", ":">>

RECURSIVE JSONEscape(_)
JSONEscape(str) ==
    IF str = <<>> THEN <<>>
    ELSE (IF Head(str) \in {"\"", "\\"} THEN <<"\\", Head(str)>> ELSE <<Head(str)>>)
            \o JSONEscape(Tail(str))

JSONQuoteUnescaped(str) == <<"\"">> \o str \o <<"\"">>

JSONQuote(str) == <<"\"">> \o JSONEscape(str) \o <<"\"">>

JSONStringifyExample(e) ==
    OpenExample \o JSONQuote(e.input) \o CommaOutput \o JSONQuote(e.output) \o <<"}">>

RECURSIVE JSONStringifyElements(_)
JSONStringifyElements(list) ==
    IF list = <<>> THEN <<>>
    ELSE IF Len(list) = 1 THEN JSONStringifyExample(list[1])
    ELSE JSONStringifyExample(list[1]) \o <<",">> \o JSONStringifyElements(Tail(list))

JSONStringify(req) ==
    OpenSystem \o JSONQuote(req.system) \o CommaInput \o JSONQuote(req.input)
        \o (IF req.examples.given
            THEN CommaExamples \o <<"[">> \o JSONStringifyElements(req.examples.list) \o <<"]">>
            ELSE <<>>)
        \o <<"}">>

\* class RequestMap extends Map: set, has and get under the stringified key
KeyMapSet(map, req, resp) ==
    [key \in DOMAIN map \cup {JSONStringify(req)} |->
        IF key = JSONStringify(req) THEN resp ELSE map[key]]

KeyMapHas(map, req) == JSONStringify(req) \in DOMAIN map

KeyMapGet(map, req) ==
    IF JSONStringify(req) \in DOMAIN map THEN map[JSONStringify(req)] ELSE NoAnswer

\* strings that hold the syntax of the key itself
InjectedSystem ==
    <<"a", "\"", ",", "\"", "i", "n", "p", "u", "t", "\"", ":", "\"", "b">>

InjectedInput ==
    <<"b", "\"", ",", "\"", "i", "n", "p", "u", "t", "\"", ":", "\"", "c">>

KeyPairs ==
    << [input |-> <<"p">>, output |-> <<"1">>],
       [input |-> <<"q">>, output |-> <<"2">>],
       [input |-> <<"p">>, output |-> <<"2">>] >>

KeyExamples ==
    { NoExamples, Examples(<<>>), Examples(<<KeyPairs[1]>>), Examples(<<KeyPairs[3]>>),
      Examples(<<KeyPairs[1], KeyPairs[2]>>), Examples(<<KeyPairs[2], KeyPairs[1]>>) }

KeyRequests ==
    [system : {<<"a">>, InjectedSystem},
     input : {<<"c">>, InjectedInput, <<"a", "\\">>},
     examples : KeyExamples]

\* requestCache.set(stored, response), then has(asked) and get(asked)
RequestMapLookup(stored, resp, asked) ==
    [has |-> KeyMapHas(KeyMapSet(<<>>, stored, resp), asked),
     get |-> KeyMapGet(KeyMapSet(<<>>, stored, resp), asked)]

RequestMapCall ==
    /\ libCall = NoLibCall
    /\ \E stored, asked \in KeyRequests :
            Called(LibCall("RequestMap", [stored |-> stored, asked |-> asked], NeverAnswers,
                           Result(requestCache,
                                  RequestMapLookup(stored, JSONParse("{\"episode\": 1}").value, asked))))

LibNext ==
    \/ CallAgain
    \/ RequestMapCall
    \/ RoundTripCall
    \/ RequestMessagesCall
    \/ ClassifyFileCall
    \/ NewFilePathsCall
    \/ GetEpisodeNumberCall
    \/ GetSeriesNameCall
    \/ GetSeasonNumberCall
    \/ GetDetailsCall
    \/ BatchCall
    \/ BatchAICall
    \/ PlanPathCall
    \/ AlreadyCorrectCall

SpecLib == LibInit /\ [][LibNext]_vars

(***************************************************************************)
(* Properties of the drivers.                                              *)
(***************************************************************************)
\* the file at path p before the step lies at another path after it
Moved(p) ==
    /\ p \in DOMAIN fs.files
    /\ \E q \in DOMAIN fs'.files : q # p /\ fs'.files[q] = fs.files[p]

\* what classifyFile makes of the response the cache holds for path p
ClassifiedAs(cache, p) ==
    classifyFileOf([cache |-> cache,
                    value |-> RequestMapGet(cache, ClassifyRequest(p))]).value

Last(q) == q[Len(q)]

Pad2(number) ==
    IF Len(NumberToString(number)) >= 2 THEN NumberToString(number)
    ELSE <<"0">> \o NumberToString(number)

\* C1: while renameFilesInDirectory works on a directory whose batch check
\* returned true, no file lying directly in that directory is renamed or moved:
\* each such file is, after every step, at the path it had before the step.
C1_ConformantDirectoryUntouched ==
    [][program = "rename" =>
        \A i \in DOMAIN stack :
            stack[i].matches =>
                \A p \in DOMAIN fs.files :
                    Dirname(p) = stack[i].dir =>
                        p \in DOMAIN fs'.files /\ fs'.files[p] = fs.files[p]]_vars

C1_Witness ==
    /\ program = "rename"
    /\ drvPc = "done"
    /\ \E i \in DOMAIN visited :
        /\ visited[i].matches
        /\ visited[i].dir = Root
        /\ Len(visited[i].files) >= 1
        /\ \A k \in DOMAIN visited[i].files : visited[i].files[k] \in DOMAIN fs.files
    /\ \E i \in DOMAIN log : log[i].outcome = "renamed"

\* C2: the rename driver renames a file only if the classification the process
\* holds for that file's path is exactly 'Episode'; a file classified as
\* anything else is skipped, and no step renames it.
C2_OnlyEpisodesRenamed ==
    [][program' = "rename" =>
        /\ \A p \in DOMAIN fs.files :
            Moved(p) =>
                /\ RequestMapHas(requestCache', ClassifyRequest(p))
                /\ ClassifiedAs(requestCache', p) = Episode
        /\ \A i \in DOMAIN log' :
            log'[i].classification # Episode => log'[i].outcome = "skipped"]_vars

C2_Witness ==
    /\ program = "rename"
    /\ drvPc = "done"
    /\ \E i, j \in DOMAIN log :
        /\ log[i].outcome = "skipped"
        /\ log[i].classification = JStr(<<"M", "o", "v", "i", "e">>)
        /\ log[i].file \in DOMAIN fs.files
        /\ fs.files[log[i].file] = log[i].file
        /\ log[j].outcome = "renamed"
        /\ log[j].classification = Episode

\* the details getDetails returns for path p, read from the responses the cache holds
CachedDetails(cache, p) ==
    [series |-> RequestMapGet(cache, SeriesRequest(p)).series,
     season |-> ParseInt(RequestMapGet(cache, SeasonRequest(p)).season),
     episode |-> ParseInt(RequestMapGet(cache, EpisodeRequest(p)).episode)]

\* the last step renamed a file with the rename driver
RenamedNow ==
    /\ program' = "rename"
    /\ Len(log') = Len(log) + 1
    /\ Last(log').outcome = "renamed"

\* the new path is the file's directory joined with the formatted name, made
\* from the details getDetails returned for the file's path
NewPathAsFormatted(e, cache) ==
    /\ e.details = CachedDetails(cache, e.file)
    /\ e.newPath = PathJoin(Dirname(e.file),
                        TemplateString(e.details.series) \o <<" ", "S">>
                            \o Pad2(e.details.season) \o <<"E">>
                            \o Pad2(e.details.episode) \o Extname(e.file))
    /\ e.newPath \in DOMAIN fs'.files
    /\ fs'.files[e.newPath] = fs.files[e.file]

\* the part of C3 that the code keeps: the new path of every rename is the
\* join of the file's directory and the formatted name
C3_NewPathIsJoinOfFormattedName ==
    [][RenamedNow => NewPathAsFormatted(Last(log'), requestCache')]_vars

\* C3: whenever the rename driver renames a file, the new path is the file's
\* directory joined with '{series} S{season:02}E{episode:02}{ext}' made from
\* the details of the file's path, and the file stays in its directory and
\* keeps its extension.
C3_RenamedInPlace ==
    [][RenamedNow =>
        /\ NewPathAsFormatted(Last(log'), requestCache')
        /\ Dirname(Last(log').newPath) = Dirname(Last(log').file)
        /\ Extname(Last(log').newPath) = Extname(Last(log').file)]_vars

\* a file has been renamed out of its directory
C3_Witness ==
    /\ program = "rename"
    /\ \E i \in DOMAIN log :
        /\ log[i].outcome = "renamed"
        /\ Dirname(log[i].newPath) # Dirname(log[i].file)
        /\ log[i].newPath \in DOMAIN fs.files

\* every file of the listing v has been handled
FilesHandled(v) ==
    \A k \in DOMAIN v.files :
        \E i \in DOMAIN log :
            log[i].run = v.run /\ log[i].dir = v.dir /\ log[i].file = v.files[k]

\* every subfolder of the listing v has been entered
SubfoldersEntered(v) ==
    \A k \in DOMAIN v.subfolders :
        \E j \in DOMAIN visited :
            visited[j].run = v.run /\ visited[j].dir = v.subfolders[k]

\* C4: in both drivers a failure while processing one file is caught: the
\* driver never raises, and when it ends it has handled every file of every
\* directory it had to work on and, in the flat driver, entered every
\* subdirectory.
C4_FailureDoesNotAbort ==
    /\ drvPc # "raised"
    /\ drvPc = "walk" => stack # <<>>
    /\ drvPc = "done" =>
        \A i \in DOMAIN visited :
            /\ ~visited[i].matches => FilesHandled(visited[i])
            /\ SubfoldersEntered(visited[i])

C4_Witness ==
    /\ program = "rename"
    /\ drvPc = "done"
    /\ \E i, j \in DOMAIN log :
        /\ i < j
        /\ log[i].outcome = "failed"
        /\ log[j].dir = log[i].dir
        /\ log[j].outcome = "renamed"
    /\ \E k \in DOMAIN visited : visited[k].dir = SubFolder

\* the move driver, too, goes on after a failure
C4_WitnessMove ==
    /\ program = "move"
    /\ drvPc = "done"
    /\ \E i, j \in DOMAIN log :
        /\ i < j
        /\ log[i].outcome = "failed"
        /\ log[j].outcome = "renamed"

\* no file has left the path it began at, and none is lost
TreeUnchanged ==
    /\ fs \in InitialTrees
    /\ \A p \in DOMAIN fs.files : fs.files[p] = p

\* C5: when every call to the service fails, renameFilesInDirectory never
\* raises, renames no file, skips every file it handles, and ends having been
\* through the whole tree.
C5_OutageSkipsEverything ==
    /\ [](program = "rename" =>
            /\ drvPc # "raised"
            /\ TreeUnchanged
            /\ \A i \in DOMAIN log : log[i].outcome = "skipped"
            /\ drvPc = "done" =>
                /\ {visited[i].dir : i \in DOMAIN visited} = {Root, SubFolder}
                /\ \A p \in DOMAIN fs.files : \E i \in DOMAIN log : log[i].file = p)
    /\ <>(drvPc = "done")

C5_Witness ==
    /\ serviceMode = "down"
    /\ program = "rename"
    /\ drvPc = "done"
    /\ Len(log) = 2
    /\ requestCache # <<>>

\* in the runs before run r every file of directory dir was renamed
AllRenamedBefore(r, dir) ==
    /\ \E i \in DOMAIN log : log[i].run < r /\ log[i].dir = dir
    /\ \A i \in DOMAIN log :
        (log[i].run < r /\ log[i].dir = dir) => log[i].outcome = "renamed"

\* C6: after a run has renamed every file of a directory of episodes of one
\* series and season, the next run, the service answering for the new names as
\* it did for the old ones, finds the directory conformant and issues no
\* rename in it, whatever series, season and episode the extractors accepted.
C6_SecondRunConformant ==
    \A k \in DOMAIN visited :
        (visited[k].run > 1 /\ visited[k].dir = Root
            /\ AllRenamedBefore(visited[k].run, Root)) =>
                /\ visited[k].matches
                /\ \A i \in DOMAIN log :
                    ~(log[i].run = visited[k].run /\ log[i].dir = Root)

\* the second run finds a directory the first run renamed not conformant and
\* issues the rename again
C6_Witness ==
    \E k \in DOMAIN visited :
        /\ visited[k].run = 2
        /\ visited[k].dir = Root
        /\ AllRenamedBefore(2, Root)
        /\ ~visited[k].matches
        /\ \E i \in DOMAIN log :
            log[i].run = 2 /\ log[i].dir = Root /\ log[i].outcome = "renamed"

\* every episode number of the earlier renames formats as two digits
EpisodesTwoDigits ==
    \A i \in DOMAIN log :
        log[i].outcome = "renamed" => Len(NumberToString(log[i].details.episode)) <= 2

\* C6 holds of the runs in which every episode number is below 100
C6_ConformantBelowHundred ==
    EpisodesTwoDigits => C6_SecondRunConformant


(***************************************************************************)
(* Properties of the functions of lib.js.                                  *)
(***************************************************************************)
Movie == JStr(<<"M", "o", "v", "i", "e">>)

Unparsable == "Sure! Here is the JSON you asked for:"

\* the call was of fn and its request req was not in the cache
CalledOnMiss(fn, req) ==
    /\ libCall.fn = fn
    /\ ~RequestMapHas(libCall.before, req)

\* C11: classifyFile never throws, and it returns 'Unrelated' when the
\* transport fails on every attempt, when the completion cannot be parsed,
\* when the retries are exhausted (now or, cached, earlier), and when the
\* response is null or has no classification.
C11_ClassifyFileNeverPropagates ==
    libCall.fn = "classifyFile" =>
        /\ ~libCall.result.threw
        /\ (CalledOnMiss("classifyFile", ClassifyRequest(libCall.input))
                /\ libCall.scripts \in {NeverAnswers, Answers(Unparsable), Answers("{}"),
                                        Answers("null")})
            => libCall.result.value = Unrelated
        /\ (RequestMapHas(libCall.before, ClassifyRequest(libCall.input))
                /\ RequestMapGet(libCall.before, ClassifyRequest(libCall.input)) = NoAnswer)
            => libCall.result.value = Unrelated
        /\ RequestMapGet(requestCache, ClassifyRequest(libCall.input)).classification = JUndef
            => libCall.result.value = Unrelated

C11_Witness ==
    /\ CalledOnMiss("classifyFile", ClassifyRequest(libCall.input))
    /\ libCall.scripts = Answers(Unparsable)
    /\ RequestMapGet(requestCache, ClassifyRequest(libCall.input)) = NoAnswer
    /\ libCall.result.value = Unrelated

\* C12: every value classifyFile returns is 'Movie', 'Episode' or 'Unrelated'.
C12_ClassificationIsOneOfThree ==
    libCall.fn = "classifyFile" =>
        /\ ~libCall.result.threw
        /\ libCall.result.value \in {Movie, Episode, Unrelated}

\* classifyFile has returned the service's 'Series'
C12_Witness ==
    /\ libCall.fn = "classifyFile"
    /\ libCall.scripts = Answers("{\"classification\": \"Series\"}")
    /\ libCall.result.value = JStr(<<"S", "e", "r", "i", "e", "s">>)

BatchCalled == libCall.fn = "checkIfEpisodeMatchesFormatInBatch"

\* what getSeriesName and getSeasonNumber make of the responses the cache
\* holds for path p
CachedSeriesName(cache, p) ==
    getSeriesNameOf([cache |-> cache, value |-> RequestMapGet(cache, SeriesRequest(p))])

CachedSeasonNumber(cache, p) ==
    getSeasonNumberOf([cache |-> cache, value |-> RequestMapGet(cache, SeasonRequest(p))])

\* the batch check classified its first path Episode and extracted a series
\* and a season from it
BatchExtracted ==
    /\ BatchCalled
    /\ Len(libCall.input) > 0
    /\ ClassifiedAs(requestCache, libCall.input[1]) = Episode
    /\ ~CachedSeriesName(requestCache, libCall.input[1]).threw
    /\ ~CachedSeasonNumber(requestCache, libCall.input[1]).threw

\* stem is seriesName, a space, 'S', the season on two digits, 'E' and two
\* digits, character by character
LiteralFormat(seriesName, seasonNumber, stem) ==
    LET prefix == TemplateString(seriesName) \o <<" ", "S">> \o Pad2(seasonNumber) \o <<"E">>
    IN  /\ Len(stem) = Len(prefix) + 2
        /\ SubSeq(stem, 1, Len(prefix)) = prefix
        /\ IsDigit(stem[Len(stem) - 1])
        /\ IsDigit(stem[Len(stem)])

AllLiteralFormat(cache, filePaths) ==
    \A i \in 1..Len(filePaths) :
        LiteralFormat(CachedSeriesName(cache, filePaths[1]).value,
                      CachedSeasonNumber(cache, filePaths[1]).value,
                      ParseName(Basename(filePaths[i])))

\* C13: when the first path is classified Episode and a series and a season
\* are extracted from it, checkIfEpisodeMatchesFormatInBatch returns true
\* exactly when the stem of every path is literally the series, ' S', the
\* season on two digits, 'E' and two digits.
C13_TrueExactlyWhenLiteralFormat ==
    BatchExtracted =>
        /\ ~libCall.result.threw
        /\ libCall.result.value = AllLiteralFormat(requestCache, libCall.input)

\* the series 'A.' accepted the stem 'Ab S01E01'
C13_Witness ==
    /\ BatchExtracted
    /\ CachedSeriesName(requestCache, libCall.input[1]).value = JStr(<<"A", ".">>)
    /\ libCall.input = <<<<"A", "b", " ", "S", "0", "1", "E", "0", "1", ".", "m">>>>
    /\ libCall.result.value = TRUE

PlainName(seriesName) ==
    \A i \in 1..Len(TemplateString(seriesName)) :
        TemplateString(seriesName)[i] \notin {".", "("}

\* C13, for series names without characters special to a pattern
C13_LiteralFormatOfPlainNames ==
    (BatchExtracted /\ PlainName(CachedSeriesName(requestCache, libCall.input[1]).value)) =>
        /\ ~libCall.result.threw
        /\ libCall.result.value = AllLiteralFormat(requestCache, libCall.input)

\* C14: if the first path is classified anything but Episode, the batch check
\* returns false and requests no series and no season: the cache, which keeps
\* every request made, gains at most the classification of the first path.
C14_NotEpisodeIsFalseWithoutExtraction ==
    (BatchCalled /\ Len(libCall.input) > 0
        /\ ClassifiedAs(requestCache, libCall.input[1]) # Episode) =>
        /\ ~libCall.result.threw
        /\ libCall.result.value = FALSE
        /\ DOMAIN requestCache \ DOMAIN libCall.before
                \subseteq {JSONStringifyRequest(ClassifyRequest(libCall.input[1]))}

C14_Witness ==
    /\ BatchCalled
    /\ Len(libCall.input) > 0
    /\ ~RequestMapHas(libCall.before, ClassifyRequest(libCall.input[1]))
    /\ ClassifiedAs(requestCache, libCall.input[1]) = Movie
    /\ libCall.scripts.series = Answers("{\"series\": \"A\"}")
    /\ ~RequestMapHas(requestCache, SeriesRequest(libCall.input[1]))
    /\ libCall.result.value = FALSE

\* C15: the batch check of an empty list returns true and makes no request,
\* whatever the cache holds and whatever the service would answer.
C15_EmptyBatchIsTrue ==
    (BatchCalled /\ Len(libCall.input) = 0) =>
        /\ ~libCall.result.threw
        /\ libCall.result.value = TRUE
        /\ requestCache = libCall.before

C15_Witness ==
    /\ BatchCalled
    /\ Len(libCall.input) = 0
    /\ libCall.before # <<>>
    /\ libCall.scripts.classify = NeverAnswers
    /\ libCall.result.value = TRUE
    /\ requestCache = libCall.before

\* C16: the batch check never throws; when the series or the season cannot be
\* extracted from a first path classified Episode, or the pattern cannot be
\* built, it returns false.
C16_BatchNeverRaises ==
    BatchCalled =>
        /\ ~libCall.result.threw
        /\ (Len(libCall.input) > 0
                /\ ClassifiedAs(requestCache, libCall.input[1]) = Episode
                /\ \/ CachedSeriesName(requestCache, libCall.input[1]).threw
                   \/ CachedSeasonNumber(requestCache, libCall.input[1]).threw
                   \/ ~RegExpCompiles(CachedSeriesName(requestCache, libCall.input[1]).value))
            => libCall.result.value = FALSE

\* the pattern of the series 'A(' could not be built
C16_Witness ==
    /\ BatchExtracted
    /\ ~RegExpCompiles(CachedSeriesName(requestCache, libCall.input[1]).value)
    /\ libCall.result.value = FALSE

BatchAICalled == libCall.fn = "checkIfEpisodeMatchesFormatInBatchAI"

\* C17: checkIfEpisodeMatchesFormatInBatchAI returns true for an empty list,
\* whatever the service answers.
C17_EmptyBatchAIIsTrue ==
    (BatchAICalled /\ Len(libCall.input) = 0) =>
        /\ ~libCall.result.threw
        /\ libCall.result.value = TRUE

\* the empty list was sent to the service, whose 'false' was returned
C17_Witness ==
    /\ BatchAICalled
    /\ Len(libCall.input) = 0
    /\ ~RequestMapHas(libCall.before, BatchAIRequest(<<>>))
    /\ libCall.scripts = Answers("{\"matches\": false}")
    /\ RequestMapHas(requestCache, BatchAIRequest(<<>>))
    /\ ~libCall.result.threw
    /\ libCall.result.value = FALSE

\* C18: checkIfEpisodeMatchesFormatInBatchAI never throws; a service that
\* fails on every attempt, and a response without a boolean matches, make it
\* return false.
C18_BatchAINeverRaises ==
    BatchAICalled =>
        /\ ~libCall.result.threw
        /\ (\/ ~HasProperties(RequestMapGet(requestCache, BatchAIRequest(libCall.input)))
            \/ RequestMapGet(requestCache, BatchAIRequest(libCall.input)).matches.t # "boolean")
            => libCall.result.value = FALSE

\* the service never answered and the error reached the caller
C18_Witness ==
    /\ BatchAICalled
    /\ Len(libCall.input) > 0
    /\ libCall.scripts = NeverAnswers
    /\ RequestMapGet(requestCache, BatchAIRequest(libCall.input)) = NoAnswer
    /\ libCall.result.threw

\* a matches that is no boolean reached the caller as an error too
C18_WitnessNotBoolean ==
    /\ BatchAICalled
    /\ libCall.scripts = Answers("{\"matches\": \"yes\"}")
    /\ libCall.result.threw

CachedEpisodeNumber(cache, p) ==
    getEpisodeNumberOf([cache |-> cache, value |-> RequestMapGet(cache, EpisodeRequest(p))])

\* getDetails finds episode, series and season of the stem of p in the cache
DetailsExtracted(cache, p) ==
    /\ ~CachedEpisodeNumber(cache, ParseName(Basename(p))).threw
    /\ ~CachedSeriesName(cache, ParseName(Basename(p))).threw
    /\ ~CachedSeasonNumber(cache, ParseName(Basename(p))).threw

\* '{series}/Season {season on two digits}/{base name of p}', with the series
\* and the season the cache holds for the stem of p
SeasonFolderPath(cache, p) ==
    TemplateString(CachedSeriesName(cache, ParseName(Basename(p))).value)
        \o <<"/", "S", "e", "a", "s", "o", "n", " ">>
        \o Pad2(CachedSeasonNumber(cache, ParseName(Basename(p))).value)
        \o <<"/">> \o Basename(p)

IsBareName(p) == \A i \in 1..Len(p) : p[i] # "/"

PlanPathCalled == libCall.fn = "generateNewFilePathIncludingParentFolders"

C19_WitnessBareName ==
    /\ PlanPathCalled
    /\ libCall.input = <<"x", ".", "m">>
    /\ libCall.result.value =
            <<"A", "/", "S", "e", "a", "s", "o", "n", " ", "0", "1", "/", "x", ".", "m">>

AlreadyCorrectCalled == libCall.fn = "checkIfFileIsAlreadyInCorrectFoler"

\* C20: checkIfFileIsAlreadyInCorrectFoler(p) returns true exactly when p ends
\* with '{series}/Season {NN}/{base name of p}' computed from the base name of
\* p; it is false for every bare file name.
C20_TrueExactlyInSeasonFolder ==
    (AlreadyCorrectCalled /\ ~libCall.result.threw) =>
        /\ DetailsExtracted(requestCache, libCall.input)
        /\ libCall.result.value =
                EndsWith(libCall.input, SeasonFolderPath(requestCache, libCall.input))
        /\ IsBareName(libCall.input) => libCall.result.value = FALSE

\* a file below its series and season folder, below another directory
C20_Witness ==
    /\ AlreadyCorrectCalled
    /\ libCall.input = <<"/", "r", "/", "A", "/", "S", "e", "a", "s", "o", "n", " ", "0", "2",
                         "/", "x", ".", "m">>
    /\ libCall.scripts.season = Answers("{\"season\": 2}")
    /\ libCall.result.value = TRUE

C20_WitnessBareName ==
    /\ AlreadyCorrectCalled
    /\ libCall.input = <<"x", ".", "m">>
    /\ DetailsExtracted(requestCache, libCall.input)
    /\ libCall.result.value = FALSE

NewFilePathsCalled == libCall.fn = "getNewFilePathsIncludingParentFolders"

\* the directory of p, a slash, and the season folder path of p
PlannedPath(cache, p) ==
    (IF IsBareName(p) THEN <<>> ELSE Dirname(p) \o <<"/">>) \o SeasonFolderPath(cache, p)

\* C21: getNewFilePathsIncludingParentFolders returns one entry per path, in
\* the order of the paths, each the planned path of its input:
\* dirname/{series}/Season {NN}/{file name}.
C21_OnePlannedPathPerInput ==
    (NewFilePathsCalled /\ ~libCall.result.threw) =>
        /\ Len(libCall.result.value) = Len(libCall.input)
        /\ \A i \in 1..Len(libCall.input) :
                libCall.result.value[i] = PlannedPath(requestCache, libCall.input[i])

\* the entry of 'd/x.m' names the directory d twice
C21_Witness ==
    /\ NewFilePathsCalled
    /\ libCall.input = <<<<"d", "/", "x", ".", "m">>>>
    /\ ~libCall.result.threw
    /\ libCall.result.value =
            << <<"d", "/", "d", "/", "A", "/", "S", "e", "a", "s", "o", "n", " ", "0", "1",
                 "/", "x", ".", "m">> >>

\* C21, for lists of bare file names
C21_OnePlannedPathPerBareName ==
    (NewFilePathsCalled /\ ~libCall.result.threw
        /\ \A i \in 1..Len(libCall.input) : IsBareName(libCall.input[i])) =>
        /\ Len(libCall.result.value) = Len(libCall.input)
        /\ \A i \in 1..Len(libCall.input) :
                libCall.result.value[i] = PlannedPath(requestCache, libCall.input[i])

\* two bare names of different series and seasons, planned in order
C21_WitnessBareNames ==
    /\ NewFilePathsCalled
    /\ libCall.input = << <<"x", ".", "m">>, <<"y", ".", "m">> >>
    /\ ~libCall.result.threw
    /\ libCall.result.value =
            << <<"A", "/", "S", "e", "a", "s", "o", "n", " ", "0", "1", "/", "x", ".", "m">>,
               <<"B", "/", "S", "e", "a", "s", "o", "n", " ", "0", "2", "/", "y", ".", "m">> >>

\* C26: a second call of classifyFile, getEpisodeNumber, getSeriesName,
\* getSeasonNumber or checkIfEpisodeMatchesFormatInBatch with the same argument
\* in the same process has the outcome of the first, value or failure,
\* whatever the service would answer now; it makes no request.
C26_SecondCallSameOutcome ==
    (libCall.fn \in RepeatedFunctions /\ libCall.again.made) =>
        /\ libCall.again.result.threw = libCall.result.threw
        /\ libCall.again.result.value = libCall.result.value
        /\ libCall.again.result.cache = libCall.result.cache

\* the series was asked for twice; the service would now say 'B'
C26_Witness ==
    /\ CalledOnMiss("getSeriesName", SeriesRequest(libCall.input))
    /\ libCall.scripts = Answers("{\"series\": \"A\"}")
    /\ libCall.again.made
    /\ libCall.again.service.series = Answers("{\"series\": \"B\"}")
    /\ libCall.result.value = JStr(<<"A">>)
    /\ libCall.again.result.value = JStr(<<"A">>)

\* a batch check that failed for want of an answer fails again, although the
\* service would now answer
C26_WitnessBatch ==
    /\ BatchCalled
    /\ Len(libCall.input) > 0
    /\ ~RequestMapHas(libCall.before, ClassifyRequest(libCall.input[1]))
    /\ libCall.scripts.classify = NeverAnswers
    /\ libCall.again.made
    /\ libCall.again.service.classify = Answers("{\"classification\": \"Episode\"}")
    /\ libCall.result.value = FALSE
    /\ libCall.again.result.value = FALSE

\* C29: the messages of request are the system prompt, then for each example
\* in list order a user turn with its input and an assistant turn with its
\* output, then a user turn with the input followed by the fence marker:
\* 2n + 2 messages for n examples; an omitted list counts as an empty one.
C29_MessagesInOrder ==
    libCall.fn = "request" =>
        /\ Len(libCall.result.value) = 2 * Len(ExamplesOrDefault(libCall.input.examples)) + 2
        /\ libCall.result.value[1] = [role |-> "system", content |-> libCall.input.system]
        /\ \A i \in 1..Len(ExamplesOrDefault(libCall.input.examples)) :
                /\ libCall.result.value[2 * i] =
                        [role |-> "user", content |-> libCall.input.examples.list[i].input]
                /\ libCall.result.value[2 * i + 1] =
                        [role |-> "assistant", content |-> libCall.input.examples.list[i].output]
        /\ libCall.result.value[Len(libCall.result.value)] =
                [role |-> "user",
                 content |-> libCall.input.input \o <<"<fence>", "j", "s", "o", "n">>]
        /\ ~libCall.input.examples.given =>
                libCall.result.value =
                    <<[role |-> "system", content |-> libCall.input.system],
                      [role |-> "user",
                       content |-> libCall.input.input \o <<"<fence>", "j", "s", "o", "n">>]>>

\* two different examples: six messages
C29_Witness ==
    /\ libCall.fn = "request"
    /\ libCall.input.examples.given
    /\ Len(libCall.input.examples.list) = 2
    /\ libCall.input.examples.list[1] # libCall.input.examples.list[2]
    /\ Len(libCall.result.value) = 6
    /\ libCall.result.value[4].content = libCall.input.examples.list[2].input

\* no example list given: two messages
C29_WitnessOmitted ==
    /\ libCall.fn = "request"
    /\ ~libCall.input.examples.given
    /\ Len(libCall.result.value) = 2

\* the response the cache holds for the request req of the call made
CachedResponse(req) == RequestMapGet(requestCache, req)

C22_WitnessZero ==
    /\ CalledOnMiss("getEpisodeNumber", EpisodeRequest(libCall.input))
    /\ libCall.scripts = Answers("{\"episode\": 0}")
    /\ libCall.result.threw

\* C23: getSeasonNumber throws when the season field is absent and when it
\* does not parse as an integer; what it returns is an integer, never NaN.
C23_SeasonValidatedAsEpisode ==
    libCall.fn = "getSeasonNumber" =>
        /\ (\/ ~HasProperties(CachedResponse(SeasonRequest(libCall.input)))
            \/ ~Truthy(CachedResponse(SeasonRequest(libCall.input)).season)
            \/ ParseInt(CachedResponse(SeasonRequest(libCall.input)).season) = JNaN)
                => libCall.result.threw
        /\ ~libCall.result.threw => libCall.result.value.t = "number"

\* the season 'x' was returned as NaN
C23_Witness ==
    /\ CalledOnMiss("getSeasonNumber", SeasonRequest(libCall.input))
    /\ libCall.scripts = Answers("{\"season\": \"x\"}")
    /\ ~libCall.result.threw
    /\ libCall.result.value = JNaN

\* C24: getSeriesName throws when the series field is absent or empty, and
\* what it returns is a non-empty string, the series field of the response.
C24_SeriesIsNonEmptyString ==
    libCall.fn = "getSeriesName" =>
        /\ (\/ ~HasProperties(CachedResponse(SeriesRequest(libCall.input)))
            \/ CachedResponse(SeriesRequest(libCall.input)).series = JUndef
            \/ CachedResponse(SeriesRequest(libCall.input)).series = JStr(<<>>))
                => libCall.result.threw
        /\ ~libCall.result.threw =>
                /\ libCall.result.value.t = "string"
                /\ libCall.result.value.s # <<>>
                /\ libCall.result.value = CachedResponse(SeriesRequest(libCall.input)).series

\* the series field 24, a number, was returned as it is
C24_Witness ==
    /\ CalledOnMiss("getSeriesName", SeriesRequest(libCall.input))
    /\ libCall.scripts = Answers("{\"series\": 24}")
    /\ ~libCall.result.threw
    /\ libCall.result.value = JNum(24)

TwoDigits(number) ==
    /\ number.t = "number"
    /\ number.n \in 1..99
    /\ Len(PadStart(NumberToString(number))) = 2

\* C25: whenever getDetails returns, season and episode are integers of
\* 1..99, which format as two digits.
C25_DetailsFormatAsTwoDigits ==
    (libCall.fn = "getDetails" /\ ~libCall.result.threw) =>
        /\ TwoDigits(libCall.result.value.season)
        /\ TwoDigits(libCall.result.value.episode)

\* getDetails returned the episode 100
C25_Witness ==
    /\ libCall.fn = "getDetails"
    /\ libCall.scripts.episode = Answers("{\"episode\": 100}")
    /\ ~libCall.result.threw
    /\ libCall.result.value.episode = JNum(100)
    /\ Len(PadStart(NumberToString(libCall.result.value.episode))) = 3

\* getDetails returned the season NaN
C25_WitnessSeasonNaN ==
    /\ libCall.fn = "getDetails"
    /\ ~libCall.result.threw
    /\ libCall.result.value.season = JNaN

\* the call made the request req: the cache, which keeps every request made,
\* holds it now and did not before
Requested(req) ==
    /\ RequestMapHas(requestCache, req)
    /\ ~RequestMapHas(libCall.before, req)

\* C28: getDetails(path) makes requests only for that path, one for the
\* episode, one for the series, one for the season; the series is requested
\* only after the episode was extracted and the season only after the series
\* was; it throws exactly when one of the three extractions fails, and returns
\* the three extracted values.
C28_DetailsFromThreeRequestsInOrder ==
    libCall.fn = "getDetails" =>
        /\ DOMAIN requestCache \ DOMAIN libCall.before
                \subseteq {JSONStringifyRequest(EpisodeRequest(libCall.input)),
                           JSONStringifyRequest(SeriesRequest(libCall.input)),
                           JSONStringifyRequest(SeasonRequest(libCall.input))}
        /\ Requested(SeriesRequest(libCall.input))
                => ~CachedEpisodeNumber(requestCache, libCall.input).threw
        /\ Requested(SeasonRequest(libCall.input))
                => /\ ~CachedEpisodeNumber(requestCache, libCall.input).threw
                   /\ ~CachedSeriesName(requestCache, libCall.input).threw
        /\ libCall.result.threw <=>
                \/ CachedEpisodeNumber(requestCache, libCall.input).threw
                \/ CachedSeriesName(requestCache, libCall.input).threw
                \/ CachedSeasonNumber(requestCache, libCall.input).threw
        /\ ~libCall.result.threw =>
                /\ RequestMapHas(requestCache, EpisodeRequest(libCall.input))
                /\ RequestMapHas(requestCache, SeriesRequest(libCall.input))
                /\ RequestMapHas(requestCache, SeasonRequest(libCall.input))
                /\ Cardinality({JSONStringifyRequest(EpisodeRequest(libCall.input)),
                                JSONStringifyRequest(SeriesRequest(libCall.input)),
                                JSONStringifyRequest(SeasonRequest(libCall.input))}) = 3
                /\ libCall.result.value =
                        [series |-> CachedSeriesName(requestCache, libCall.input).value,
                         season |-> CachedSeasonNumber(requestCache, libCall.input).value,
                         episode |-> CachedEpisodeNumber(requestCache, libCall.input).value]

\* the three requests were made and their values returned
C28_Witness ==
    /\ libCall.fn = "getDetails"
    /\ Requested(EpisodeRequest(libCall.input))
    /\ Requested(SeriesRequest(libCall.input))
    /\ Requested(SeasonRequest(libCall.input))
    /\ ~libCall.result.threw
    /\ libCall.result.value = [series |-> JStr(<<"A">>), season |-> JNum(1), episode |-> JNum(1)]

\* the series could not be extracted and the season was not requested
C28_WitnessSeriesFails ==
    /\ libCall.fn = "getDetails"
    /\ Requested(EpisodeRequest(libCall.input))
    /\ Requested(SeriesRequest(libCall.input))
    /\ libCall.scripts.season = Answers("{\"season\": 1}")
    /\ ~RequestMapHas(requestCache, SeasonRequest(libCall.input))
    /\ libCall.result.threw

(***************************************************************************)
(* Properties of the walk of the rename driver.                            *)
(***************************************************************************)
\* the loop iterations made for the files of directory dir
IterationsIn(dir) == {i \in DOMAIN log : log[i].dir = dir}

\* the step enters a subdirectory of the directory being processed
Descending ==
    /\ program = "rename"
    /\ stack # <<>>
    /\ Len(visited') = Len(visited) + 1

\* the directory being processed has had its own files handled: none if its
\* batch was conformant, each file of its listing once if not
OwnFilesHandled ==
    /\ Top.files = <<>>
    /\ \E j \in DOMAIN visited :
        /\ visited[j].dir = Top.dir
        /\ Cardinality(IterationsIn(Top.dir))
                = IF visited[j].matches THEN 0 ELSE Len(visited[j].files)

\* C27: renameFilesInDirectory enters no directory twice and never raises;
\* it enters a subdirectory only when the files of the directory it is in
\* have been handled, and handles a file only while no directory below has
\* been entered; it ends, whatever the service does, and has then entered
\* every directory of the tree, below conformant directories too.
C27_WalkEntersEveryDirectoryOnce ==
    /\ [](program = "rename" =>
            /\ drvPc # "raised"
            /\ \A i, j \in DOMAIN visited : visited[i].dir = visited[j].dir => i = j
            /\ drvPc = "done" =>
                {visited[i].dir : i \in DOMAIN visited}
                    = {d \in fs.dirs : d = Root \/ Below(d, Root)})
    /\ [][/\ Descending => OwnFilesHandled
          /\ (program = "rename" /\ Len(log') = Len(log) + 1) =>
                \A j \in DOMAIN visited : ~Below(visited[j].dir, Top.dir)]_vars
    /\ [](~WalkEnabled => drvPc = "done")
    /\ <>(drvPc = "done")

\* the walk has ended: the root was conformant, and a file of the directory
\* two levels below was renamed
C27_Witness ==
    /\ serviceMode = "walk"
    /\ program = "rename"
    /\ drvPc = "done"
    /\ Len(visited) = 4
    /\ visited[1].dir = Root
    /\ visited[1].matches
    /\ visited[1].files # <<>>
    /\ \E i \in DOMAIN log : log[i].dir = NestedFolder /\ log[i].outcome = "renamed"

\* the walk has ended with a service that never answered
C27_WitnessOutage ==
    /\ serviceMode = "walk"
    /\ drvPc = "done"
    /\ Len(visited) = 4
    /\ Len(log) = 2
    /\ \A i \in DOMAIN log : log[i].outcome = "skipped"
    /\ \A key \in DOMAIN requestCache : requestCache[key] = NoAnswer

(***************************************************************************)
(* Properties of the retry orchestrator and the response cache (SpecApi).  *)
(***************************************************************************)
ClientInvocations(c) == c.callsAfter - c.callsBefore

FirstCallOf(i) == \A h \in 1..(i - 1) : calls[h].req # calls[i].req

Exhausted(c) == ~c.hit /\ c.okAt = 0 /\ Len(c.args) = MaxTries

\* C7: a call whose client failed k < 15 times and then answered returns that
\* answer after exactly k+1 client invocations, every one of them with the
\* call's own (system, input, examples), and asks nothing after the answer.
C7_RetryReturnsFirstSuccess ==
    \A i \in 1..Len(calls) :
        LET c == calls[i]
        IN  (~c.hit /\ c.okAt > 0) =>
                /\ c.fails < MaxTries
                /\ c.okAt = c.fails + 1
                /\ Len(c.args) = c.fails + 1
                /\ ClientInvocations(c) = c.fails + 1
                /\ \A a \in 1..Len(c.args) : c.args[a] = c.req
                /\ ~c.outcome.threw
                /\ c.outcome.value = c.okValue

\* the client failed 14 times, for both reasons, and answered on the 15th attempt
C7_Witness ==
    \E i \in 1..Len(calls) :
        /\ ~calls[i].hit
        /\ calls[i].okAt = MaxTries
        /\ calls[i].lastErr = "parse"
        /\ calls[i].outcome.value.k = "object"

\* C8: with a client that fails every time, the call invokes it exactly 15
\* times, then resolves to undefined without raising; no 16th attempt is made.
C8_ExhaustionAfterFifteen ==
    /\ tries <= MaxTries
    /\ Len(attempt.args) <= MaxTries
    /\ \A i \in 1..Len(calls) :
        LET c == calls[i]
        IN  (~c.hit /\ c.okAt = 0) =>
                /\ Len(c.args) = MaxTries
                /\ ClientInvocations(c) = MaxTries
                /\ c.fails = MaxTries
                /\ ~c.outcome.threw
                /\ c.outcome.value = NoAnswer

C8_Witness ==
    \E i \in 1..Len(calls) :
        ~calls[i].hit /\ calls[i].okAt = 0 /\ calls[i].lastErr = "transport"

\* C9 as stated: two sequential calls with the same request cause exactly one
\* client invocation in total, and the second returns what the first returned.
C9_ExactlyOneInvocation ==
    \A i \in 1..Len(calls) : \A j \in (i + 1)..Len(calls) :
        (calls[j].req = calls[i].req /\ FirstCallOf(i)) =>
            /\ ClientInvocations(calls[i]) + ClientInvocations(calls[j]) = 1
            /\ calls[j].outcome = calls[i].outcome

\* C9 amended: the second call invokes the client not at all and returns what
\* the first returned; the client invocations of the two calls together are
\* those of the first call's retry loop: one per attempt, between 1 and 15,
\* and exactly one when the first attempt is answered.
C9_SecondCallFromCache ==
    \A i \in 1..Len(calls) : \A j \in (i + 1)..Len(calls) :
        (calls[j].req = calls[i].req /\ FirstCallOf(i)) =>
            /\ calls[j].hit
            /\ ClientInvocations(calls[j]) = 0
            /\ calls[j].outcome = calls[i].outcome
            /\ ClientInvocations(calls[i]) + ClientInvocations(calls[j])
                    = calls[i].fails + (IF calls[i].okAt > 0 THEN 1 ELSE 0)
            /\ ClientInvocations(calls[i]) \in 1..MaxTries
            /\ (calls[i].fails = 0 => ClientInvocations(calls[i]) = 1)

\* the first call needed three attempts, the second one was answered by the cache
C9_Witness ==
    \E i \in 1..Len(calls) : \E j \in (i + 1)..Len(calls) :
        /\ calls[j].req = calls[i].req
        /\ FirstCallOf(i)
        /\ ClientInvocations(calls[i]) = 3
        /\ calls[i].outcome.value.k = "object"

\* C10: once a request has exhausted its retries, its key holds the absent
\* result in every later state, and every later identical request returns the
\* absent result from the cache without a client invocation.
C10_ExhaustionCachedForGood ==
    \A i \in 1..Len(calls) :
        Exhausted(calls[i]) =>
            /\ JSONStringifyRequest(calls[i].req) \in DOMAIN requestCache
            /\ requestCache[JSONStringifyRequest(calls[i].req)] = NoAnswer
            /\ \A j \in (i + 1)..Len(calls) :
                    calls[j].req = calls[i].req =>
                        /\ calls[j].hit
                        /\ ClientInvocations(calls[j]) = 0
                        /\ calls[j].outcome = Returned(NoAnswer)

\* an exhausted request was asked again, twice
C10_Witness ==
    \E i \in 1..Len(calls) :
        /\ Exhausted(calls[i])
        /\ Cardinality({j \in (i + 1)..Len(calls) : calls[j].req = calls[i].req}) >= 2

(***************************************************************************)
(* Requests in flight.                                                     *)
(***************************************************************************)
\* the client invocations of a call that have ended: the ones that threw and
\* the one that answered
Ended(fails, okAt) == fails + (IF okAt # 0 THEN 1 ELSE 0)

RECURSIVE EndedIn(_)
EndedIn(cs) ==
    IF cs = <<>> THEN 0
    ELSE Ended(Head(cs).fails, Head(cs).okAt) + EndedIn(Tail(cs))

\* client invocations begun and not yet ended
Outstanding == clientCalls - (EndedIn(calls) + Ended(tries, attempt.okAt))

\* C30: at most one request to the service is outstanding at any time: the
\* client is invoked, for a first attempt or a retry, only when no invocation
\* is outstanding, and a call of requestWrapper begins and ends with none.
C30_OneOutstandingRequest ==
    /\ [](Outstanding \in {0, 1})
    /\ [](apiPc \in {"idle", "return"} => Outstanding = 0)
    /\ [][clientCalls' # clientCalls =>
            /\ clientCalls' = clientCalls + 1
            /\ Outstanding = 0
            /\ Outstanding' = 1]_vars

\* a retry of the second call is in flight: the first call and the earlier
\* attempts of this one have ended
C30_Witness ==
    /\ Len(calls) >= 1
    /\ calls[1].callsAfter >= 2
    /\ apiPc = "await"
    /\ tries >= 1
    /\ Outstanding = 1
    /\ clientCalls = EndedIn(calls) + tries + 1

(***************************************************************************)
(* Properties of the key of the cache.                                     *)
(***************************************************************************)
\* C31: after set(stored, response), has(asked) is true exactly when asked
\* has the system prompt, the input and the examples (content and order) of
\* stored, and get(asked) then returns the stored response and otherwise
\* nothing; the key the other specifications use tells requests apart
\* exactly as the stringified key does.
C31_HitOnlyForEqualRequest ==
    libCall.fn = "RequestMap" =>
        /\ libCall.result.value.has <=> libCall.input.asked = libCall.input.stored
        /\ libCall.result.value.get =
                IF libCall.input.asked = libCall.input.stored
                THEN JSONParse("{\"episode\": 1}").value ELSE NoAnswer
        /\ (JSONStringifyRequest(libCall.input.asked) = JSONStringifyRequest(libCall.input.stored))
                <=> (JSONStringify(libCall.input.asked) = JSONStringify(libCall.input.stored))

\* a miss: the two requests differ only in the order of their examples
C31_Witness ==
    /\ libCall.fn = "RequestMap"
    /\ ~libCall.result.value.has
    /\ libCall.input.stored.system = libCall.input.asked.system
    /\ libCall.input.stored.input = libCall.input.asked.input
    /\ libCall.input.stored.examples = Examples(<<KeyPairs[1], KeyPairs[2]>>)
    /\ libCall.input.asked.examples = Examples(<<KeyPairs[2], KeyPairs[1]>>)

\* a miss: the strings of the two requests hold the key's own syntax, and the
\* keys would be the same text were the quotes not escaped
C31_WitnessQuotes ==
    /\ libCall.fn = "RequestMap"
    /\ ~libCall.result.value.has
    /\ libCall.input.stored.system = InjectedSystem
    /\ libCall.input.stored.input = <<"c">>
    /\ libCall.input.asked.system = <<"a">>
    /\ libCall.input.asked.input = InjectedInput
    /\ libCall.input.stored.examples = libCall.input.asked.examples

\* a hit
C31_WitnessHit ==
    /\ libCall.fn = "RequestMap"
    /\ libCall.result.value.has
    /\ libCall.input.stored.examples = Examples(<<KeyPairs[1], KeyPairs[2]>>)
    /\ libCall.input.stored.system = InjectedSystem

(***************************************************************************)
(* Properties of requestWrapper with two callers (SpecRace).               *)
(***************************************************************************)
\* the calls before the i-th that missed with the request of the i-th and
\* have stored their response
StoredBefore(i) ==
    {j \in 1..(i - 1) : calls[j].req = calls[i].req /\ ~calls[j].hit}

LastOf(js) == CHOOSE j \in js : \A k \in js : k <= j

\* C32: the cache holds only the responses of completed calls, so a call
\* hits only on the response the latest completed call of its request stored;
\* a call that misses invokes the client itself, returns its own response and
\* stores it over whatever an earlier completion stored, the entry holding
\* the response of the latest completion; and an entry is overwritten only
\* by a call that was in progress together with another call.
C32_InFlightRequestsNotGuarded ==
    /\ \A i \in DOMAIN calls :
        /\ calls[i].hit =>
            /\ StoredBefore(i) # {}
            /\ calls[i].outcome = calls[LastOf(StoredBefore(i))].outcome
        /\ ~calls[i].hit =>
            /\ calls[i].overwrote <=> StoredBefore(i) # {}
            /\ calls[i].overwrote =>
                    /\ calls[i].overlapped
                    /\ calls[i].before = calls[LastOf(StoredBefore(i))].outcome
    /\ \A req \in ApiRequests :
        LET stored == {j \in DOMAIN calls : calls[j].req = req /\ ~calls[j].hit}
        IN  IF stored = {} THEN ~RequestMapHas(requestCache, req)
            ELSE /\ RequestMapHas(requestCache, req)
                 /\ RequestMapGet(requestCache, req) = calls[LastOf(stored)].outcome
    /\ clientCalls >= Cardinality({j \in DOMAIN calls : ~calls[j].hit})
                        + Cardinality({p \in Callers : InFlight(p)})

\* two callers asked the same request, the second before the first had
\* completed: both missed, the client was invoked twice, the callers got
\* different responses and the entry holds the later one
C32_Witness ==
    /\ Len(calls) = 2
    /\ calls[1].req = calls[2].req
    /\ calls[1].caller # calls[2].caller
    /\ ~calls[1].hit /\ ~calls[2].hit
    /\ calls[1].overlapped /\ calls[2].overlapped
    /\ clientCalls = 2
    /\ calls[1].outcome # calls[2].outcome
    /\ calls[1].outcome # NoAnswer /\ calls[2].outcome # NoAnswer
    /\ calls[2].overwrote
    /\ RequestMapGet(requestCache, calls[1].req) = calls[2].outcome

\* two callers asked the same request one after the other: the second hit
C32_WitnessSequential ==
    /\ Len(calls) = 2
    /\ calls[1].req = calls[2].req
    /\ calls[1].caller # calls[2].caller
    /\ ~calls[1].overlapped /\ ~calls[2].overlapped
    /\ ~calls[1].hit /\ calls[2].hit
    /\ calls[2].outcome = calls[1].outcome
    /\ clientCalls = 1

(***************************************************************************)
(* Properties of the move driver.                                          *)
(***************************************************************************)
\* the last step was an iteration of the move driver's loop
MoveLogged ==
    /\ program = "move"
    /\ Len(log') = Len(log) + 1

\* the entry the iteration handled
MovedFrom(e) == PathJoin(e.dir, e.file)

\* nothing stands in the way of the move: the entry is a file, no file lies
\* where a parent directory of the destination has to be, and the destination
\* is no directory
NothingInTheWay(f, e) ==
    /\ IsFile(f, MovedFrom(e))
    /\ \A q \in UpTo(Dirname(e.newPath)) : ~IsFile(f, q)
    /\ ~IsDirectory(f, e.newPath)

\* C33: when moveAllFilesToCorrectFolders moves an entry of dir, the new path
\* is dir/{series}/Season {NN}/{name} for the series and season extracted for
\* the name, every directory on the way to it exists afterwards, and the
\* entry is at the new path and no more at the old one; the directories are
\* made before the rename, so that a plain file with nothing in the way never
\* fails to move for want of a directory.
C33_MoveCreatesParentsFirst ==
    [][MoveLogged =>
        /\ Last(log').outcome = "renamed" =>
            /\ Last(log').newPath = Last(log').dir \o <<"/">>
                    \o SeasonFolderPath(requestCache', Last(log').file)
            /\ UpTo(Dirname(Last(log').newPath)) \subseteq fs'.dirs
            /\ IsFile(fs, MovedFrom(Last(log'))) =>
                /\ IsFile(fs', Last(log').newPath)
                /\ fs'.files[Last(log').newPath] = fs.files[MovedFrom(Last(log'))]
                /\ ~IsFile(fs', MovedFrom(Last(log')))
        /\ (Last(log').outcome = "failed" /\ Last(log').newPath # <<>>) =>
            ~NothingInTheWay(fs, Last(log'))]_vars

\* a file was moved into a season folder that did not exist when the run began
C33_Witness ==
    /\ program = "move"
    /\ \E i \in DOMAIN log :
        /\ log[i].outcome = "renamed"
        /\ log[i].file = <<"x", ".", "m">>
        /\ log[i].newPath = <<"/", "r", "/", "A", "/", "S", "e", "a", "s", "o", "n", " ",
                               "0", "1", "/", "x", ".", "m">>
        /\ IsFile(fs, log[i].newPath)
        /\ IsDirectory(fs, <<"/", "r", "/", "A", "/", "S", "e", "a", "s", "o", "n", " ",
                              "0", "1">>)
        /\ ~IsFile(fs, <<"/", "r", "/", "x", ".", "m">>)

\* the entry lies in the season folder of the series and season extracted for
\* its name
InSeasonFolder(cache, e) ==
    /\ DetailsExtracted(cache, e.file)
    /\ EndsWith(MovedFrom(e), SeasonFolderPath(cache, e.file))

\* C34: moveAllFilesToCorrectFolders skips every entry that lies in its
\* {series}/Season {NN} folder and leaves the file system as it is; it moves
\* only entries classified Episode that do not lie in that folder.
C34_MoveSkipsFilesInPlace ==
    [][MoveLogged =>
        /\ (IsEpisode(Last(log').classification)
                /\ InSeasonFolder(requestCache', Last(log'))) =>
            /\ Last(log').outcome = "skipped"
            /\ fs' = fs
        /\ Last(log').outcome = "renamed" =>
            /\ IsEpisode(Last(log').classification)
            /\ ~InSeasonFolder(requestCache', Last(log'))]_vars

\* a file that lay in its season folder has been moved one season folder down
C34_Witness ==
    /\ program = "move"
    /\ \E i \in DOMAIN log :
        /\ log[i].dir = SeasonFolder
        /\ log[i].file = <<"x", ".", "m">>
        /\ log[i].outcome = "renamed"
        /\ log[i].newPath = SeasonFolder \o <<"/", "A", "/">>
                                \o <<"S", "e", "a", "s", "o", "n", " ", "0", "1">>
                                \o <<"/", "x", ".", "m">>
        /\ IsFile(fs, log[i].newPath)
        /\ ~IsFile(fs, SeasonFolder \o <<"/", "x", ".", "m">>)

(***************************************************************************)
(* Properties of the extractors over the retry loop and the cache.         *)
(***************************************************************************)
Extractors == {"getEpisodeNumber", "getSeriesName", "getSeasonNumber"}

ExtractorRequest(fn, input) ==
    CASE fn = "getEpisodeNumber" -> EpisodeRequest(input)
      [] fn = "getSeriesName" -> SeriesRequest(input)
      [] fn = "getSeasonNumber" -> SeasonRequest(input)

ExtractorField(fn, resp) ==
    CASE fn = "getEpisodeNumber" -> resp.episode
      [] fn = "getSeriesName" -> resp.series
      [] fn = "getSeasonNumber" -> resp.season

ExtractorService(fn, service) ==
    CASE fn = "getEpisodeNumber" -> service.episode
      [] fn = "getSeriesName" -> service.series
      [] fn = "getSeasonNumber" -> service.season

\* an extractor was called for a request the cache did not hold
ExtractedOnMiss ==
    /\ libCall.fn \in Extractors
    /\ ~RequestMapHas(libCall.before, ExtractorRequest(libCall.fn, libCall.input))

\* the service's first reply: a completion that parses as JSON
FirstReplyParses ==
    /\ ~ServiceReply(libCall.scripts, 1).threw
    /\ JSONParse(ServiceReply(libCall.scripts, 1).content).ok

FirstReplyValue == JSONParse(ServiceReply(libCall.scripts, 1).content).value

\* the first reply was JSON: an object without the field asked for
AnsweredWithoutField ==
    /\ FirstReplyParses
    /\ FirstReplyValue.k = "object"
    /\ ExtractorField(libCall.fn, FirstReplyValue) = JUndef

C35_WitnessUnparsable ==
    /\ ExtractedOnMiss
    /\ libCall.fn = "getEpisodeNumber"
    /\ libCall.scripts = Answers("Sure! Here is the JSON you asked for:")
    /\ requestWrapperInvocations(libCall.before, EpisodeRequest(libCall.input),
                                 libCall.scripts) = MaxTries
    /\ libCall.result.threw

(***************************************************************************)
(* Properties of the rename driver over requests without an answer.        *)
(***************************************************************************)
\* the request was made and its retries were exhausted: the cache holds the
\* absent result
NoAnswerFor(req) ==
    /\ RequestMapHas(requestCache, req)
    /\ RequestMapGet(requestCache, req) = NoAnswer

Answered(req) ==
    /\ RequestMapHas(requestCache, req)
    /\ RequestMapGet(requestCache, req) # NoAnswer

\* C36: the rename driver renames a file only when the classification, the
\* episode, the series and the season request of its path were all answered;
\* a file whose classification got no answer is skipped as Unrelated, and a
\* file classified Episode one of whose extractions got no answer fails,
\* the extractor having thrown, and gets no new path.
C36_NoAnswerNeverBecomesMetadata ==
    program = "rename" =>
        \A i \in DOMAIN log :
            /\ NoAnswerFor(ClassifyRequest(log[i].file)) =>
                /\ log[i].outcome = "skipped"
                /\ log[i].classification = Unrelated
            /\ (/\ IsEpisode(log[i].classification)
                /\ \/ NoAnswerFor(EpisodeRequest(log[i].file))
                   \/ NoAnswerFor(SeriesRequest(log[i].file))
                   \/ NoAnswerFor(SeasonRequest(log[i].file))) =>
                /\ log[i].outcome = "failed"
                /\ log[i].newPath = <<>>
                /\ log[i].details = NoDetails
            /\ log[i].outcome = "renamed" =>
                /\ Answered(ClassifyRequest(log[i].file))
                /\ Answered(EpisodeRequest(log[i].file))
                /\ Answered(SeriesRequest(log[i].file))
                /\ Answered(SeasonRequest(log[i].file))

\* the episode and the series of a file were extracted, the season request
\* got no answer: the file failed and is where it was
C36_Witness ==
    /\ program = "rename"
    /\ \E i \in DOMAIN log :
        /\ IsEpisode(log[i].classification)
        /\ Answered(EpisodeRequest(log[i].file))
        /\ Answered(SeriesRequest(log[i].file))
        /\ NoAnswerFor(SeasonRequest(log[i].file))
        /\ log[i].outcome = "failed"
        /\ IsFile(fs, log[i].file)

\* the episode request got no answer
C36_WitnessEpisode ==
    /\ program = "rename"
    /\ \E i \in DOMAIN log :
        /\ IsEpisode(log[i].classification)
        /\ NoAnswerFor(EpisodeRequest(log[i].file))
        /\ log[i].outcome = "failed"

\* the series request got no answer
C36_WitnessSeries ==
    /\ program = "rename"
    /\ \E i \in DOMAIN log :
        /\ IsEpisode(log[i].classification)
        /\ Answered(EpisodeRequest(log[i].file))
        /\ NoAnswerFor(SeriesRequest(log[i].file))
        /\ log[i].outcome = "failed"

\* the classification got no answer
C36_WitnessClassification ==
    /\ program = "rename"
    /\ \E i \in DOMAIN log :
        /\ NoAnswerFor(ClassifyRequest(log[i].file))
        /\ log[i].outcome = "skipped"

(***************************************************************************)
(* Properties of the rename driver over files with the same new name.      *)
(***************************************************************************)
\* C37: no step of the rename driver renames a file onto the path of another
\* file, and none changes the number of files.
C37_NoFileLost ==
    [][program' = "rename" =>
        /\ RenamedNow =>
            \/ Last(log').newPath = Last(log').file
            \/ ~IsFile(fs, Last(log').newPath)
        /\ Cardinality(DOMAIN fs'.files) = Cardinality(DOMAIN fs.files)]_vars

\* /r/x.m was renamed onto /r/A S01E01.m, a file of the same directory that
\* the run had not renamed: the file that was there is gone
C37_Witness ==
    /\ program = "rename"
    /\ \E i \in DOMAIN log :
        /\ log[i].outcome = "renamed"
        /\ log[i].file = PathJoin(Root, <<"x", ".", "m">>)
        /\ log[i].newPath = PathJoin(Root, <<"A", " ", "S", "0", "1", "E", "0", "1", ".", "m">>)
        /\ IsFile(fs, log[i].newPath)
        /\ fs.files[log[i].newPath] = log[i].file
    /\ \A p \in DOMAIN fs.files :
            fs.files[p] # PathJoin(Root, <<"A", " ", "S", "0", "1", "E", "0", "1", ".", "m">>)
    /\ \A j \in DOMAIN log :
            log[j].file # PathJoin(Root, <<"A", " ", "S", "0", "1", "E", "0", "1", ".", "m">>)
                \/ log[j].outcome # "renamed"

(***************************************************************************)
(* Properties of the path planner and the check of the folder together.    *)
(***************************************************************************)
\* a path was planned and the planned path was checked
RoundTripMade == libCall.fn = "roundTrip" /\ libCall.result.value.planned # <<>>

\* C38: whenever generateNewFilePathIncludingParentFolders(p) returns a path,
\* checkIfFileIsAlreadyInCorrectFoler of that path returns true, in the same
\* process and without the service.
C38_PlannedPathIsAlreadyCorrect ==
    RoundTripMade =>
        /\ ~libCall.result.threw
        /\ libCall.result.value.already = TRUE

\* the round trip of every path whose series is not the parent directory
C38_PlannedPathOfNamedSeries ==
    (RoundTripMade
        /\ CachedSeriesName(requestCache, ParseName(Basename(libCall.input))).value
                # JStr(<<".", ".">>)) =>
        /\ ~libCall.result.threw
        /\ libCall.result.value.already = TRUE

\* /r/x.m with series '..' and season 1 is planned as /Season 01/x.m, which
\* the check does not find in its folder
C38_Witness ==
    /\ libCall.fn = "roundTrip"
    /\ libCall.input = <<"/", "r", "/", "x", ".", "m">>
    /\ libCall.result.value.planned =
            <<"/", "S", "e", "a", "s", "o", "n", " ", "0", "1", "/", "x", ".", "m">>
    /\ ~libCall.result.threw
    /\ libCall.result.value.already = FALSE

\* /r/x.m with series 'A' and season 2: the planned path is found in its folder
C38_WitnessNamedSeries ==
    /\ libCall.fn = "roundTrip"
    /\ libCall.input = <<"/", "r", "/", "x", ".", "m">>
    /\ libCall.result.value.planned =
            <<"/", "r", "/", "A", "/", "S", "e", "a", "s", "o", "n", " ", "0", "2", "/",
              "x", ".", "m">>
    /\ libCall.result.value.already = TRUE

====
